---- MODULE Spec2Model ----
(***************************************************************************)
(* Pulse Forge: the fixed-timestep engine (engine.ts), the zustand store   *)
(* (store.ts), the player / pickup / hazard systems, the persistence of    *)
(* PersistentMastery (mastery.ts) and the screen handlers (app/index.tsx). *)
(*                                                                         *)
(* Time is counted in fixed ticks (dt = 1).  Two specifications share the  *)
(* variables:                                                              *)
(*   Spec     the application: screens, run phases, the frame loop, the    *)
(*            store and the asynchronous load / save of PersistentMastery; *)
(*            what the hazards and pickups do to the player in a tick is   *)
(*            an input of the tick.                                        *)
(*   SpecHaz  the collision classification of checkHazardCollisions on    *)
(*            integer geometry, for one hazard and the moving player.      *)
(***************************************************************************)
EXTENDS Integers, Sequences, FiniteSets, TLC

VARIABLES
  phase,              \* store.phase
  timer,              \* store.timer, in ticks
  lastUpgradeTime,    \* store.lastUpgradeTime, in ticks
  upgradeChoices,     \* store.upgradeChoices
  selectedUpgrades,   \* store.selectedUpgrades
  masteryStats,       \* store.masteryStats
  persistentMastery,  \* store.persistentMastery
  newUnlocks,         \* store.newUnlocks
  runRewards,         \* store.runRewards
  score,              \* store.score
  perfectPulses,      \* store.perfectPulses
  currentScreen,      \* PulseForge currentScreen
  running,            \* GameEngine.running
  animationFrameId,   \* GameEngine.animationFrameId: "null", "live" (names a pending callback), "stale"
  rafPending,         \* number of requestAnimationFrame callbacks of loop that are pending
  pc,                 \* "idle", or "loop" while a call of GameEngine.loop is executing
  accumulator,        \* GameEngine.accumulator, in whole ticks
  loopPhase,          \* the phase of the store snapshot that loop took before its while loop
  player,             \* GameEngine.player
  heap,               \* the MasteryProgress objects: reference -> risk XP
  storage,            \* AsyncStorage item MASTERY_STORAGE_KEY
  tasks,              \* asynchronous operations in flight
  endRunCalls,        \* history: calls of endRun since the last startGame
  runsStarted,        \* history: calls of startGame
  masteryLoaded,      \* history: some loadMastery has completed
  saveFailed,         \* history: the storage write of some endRun has failed
  tickPhase,          \* history: store.phase when the latest fixedUpdate began ("none": no tick yet)
  hz,                 \* SpecHaz: the hazard, the player's position and the event counts
  calc,               \* SpecFn: a call of a pure function, its arguments and its result
  clock,              \* SpecLoop: GameEngine.lastTime in ms since start() and the ticks run
  pressed,            \* SpecTouch: a press on the game canvas is in progress
  sinceDamage         \* SpecDmg history: ticks run since HP was last lost (-1: never)

vars == <<phase, timer, lastUpgradeTime, upgradeChoices, selectedUpgrades, masteryStats,
          persistentMastery, newUnlocks, runRewards, score, perfectPulses, currentScreen, running,
          animationFrameId, rafPending, pc, accumulator, loopPhase, player, heap,
          storage, tasks, endRunCalls, runsStarted, masteryLoaded, saveFailed, tickPhase, hz, calc, clock, pressed, sinceDamage>>

storeVars == <<phase, timer, lastUpgradeTime, upgradeChoices, selectedUpgrades, masteryStats,
               persistentMastery, newUnlocks, runRewards, score, perfectPulses>>
appVars == <<storeVars, currentScreen, running, animationFrameId, rafPending, pc, accumulator,
             loopPhase, heap, storage, tasks, endRunCalls, runsStarted, masteryLoaded, saveFailed,
             tickPhase>>

(***************************************************************************)
(* Bounds                                                                  *)
(***************************************************************************)
maxTime == 8            \* run length in ticks
upgradeInterval == 3    \* ticks between upgrade offers: two offers in a run
InvincibleTicks == 2    \* ticks of invincibility after a hit
MaxOverlap == 2         \* hazards that overlap the player in one tick
PhaseTicks == 2         \* ticks of a phase window
ChargeMax == 2          \* maxCharge in charge steps of one tick
MaxTicksPerFrame == 2   \* fixed ticks one frame can consume
MaxRuns == 2            \* runs started in a session
MaxPending == 3         \* asynchronous operations in flight
MaxNearMiss == 1        \* near misses counted in a run
MaxSparks == 1          \* spark pickups collected in a run
MaxScore == 61          \* shards are collected while the score stays within this
MaxPerfect == 1         \* perfect pulses in a run

(***************************************************************************)
(* Program constants                                                       *)
(***************************************************************************)
StartHp == 3
ShardValue == 10
PerfectBonus == 50
StoreMultiplier == 1
NearMissXP == 15
RiskBonusPerNearMiss == 3
TimingBonusPerPerfect == 2
MinBase == 5
PerfectPulseXP == 10
RhythmStreak3 == 25
RhythmStreak5 == 50
RhythmStreak10 == 100
RhythmStreak20 == 200

Min(a, b) == IF a < b THEN a ELSE b
Max(a, b) == IF a > b THEN a ELSE b

Phases == {"menu", "countdown", "playing", "upgrade", "ended"}

\* upgrades that are always available: extra_heart changes Player scalars the
\* tick reads (maxHp, hp), shard_value names a stat the Player does not have,
\* power_dash names the Player scalar dashPower
BaseUpgrades == {"extra_heart", "shard_value", "power_dash"}
MasteryUpgrades == {"close_call"}
\* upgrades the unlocks screen sells for blueprints
BlueprintUpgrades == {"timing_echo"}
TimingEchoCost == 75

(***************************************************************************)
(* Player system                                                           *)
(***************************************************************************)
StartDashPower == 400

createPlayer ==
  [hp |-> StartHp, maxHp |-> StartHp, charge |-> 0, maxCharge |-> ChargeMax,
   isCharging |-> FALSE, phaseActive |-> FALSE, phaseTimer |-> 0,
   invincible |-> FALSE, invincibleTimer |-> 0, multiplier |-> 10,
   dashPower |-> StartDashPower]

updatePlayer(p) ==
  LET c == IF p.isCharging THEN Min(p.maxCharge, p.charge + 1) ELSE p.charge
      pt == IF p.phaseActive THEN p.phaseTimer - 1 ELSE p.phaseTimer
      pa == p.phaseActive /\ ~(pt <= 0)
      it == IF p.invincible THEN p.invincibleTimer - 1 ELSE p.invincibleTimer
      iv == p.invincible /\ ~(it <= 0)
  IN [p EXCEPT !.charge = c, !.phaseTimer = pt, !.phaseActive = pa,
               !.invincibleTimer = it, !.invincible = iv]

\* a damagePlayer without its invincibility test
damagePlayerAlways(p, damage) ==
  [p EXCEPT !.hp = p.hp - damage, !.invincible = TRUE, !.invincibleTimer = InvincibleTicks]

\* the Player part of damagePlayer; damageEnds is its call of store.setPhase('ended')
damagePlayer(p, damage) ==
  IF p.invincible THEN p
  ELSE [p EXCEPT !.hp = p.hp - damage, !.invincible = TRUE,
                 !.invincibleTimer = InvincibleTicks]

damageEnds(p, damage) == ~p.invincible /\ p.hp - damage <= 0

\* checkHazardCollisions: the forEach calls damagePlayer once for each of the
\* n hazards that overlap the player and are not phase-exempt
RECURSIVE damageAll(_, _)
damageAll(p, n) == IF n = 0 THEN p ELSE damageAll(damagePlayer(p, 1), n - 1)

\* checkPickupCollisions, 'cell' case
collectCell(p, value) == [p EXCEPT !.hp = Min(p.maxHp, p.hp + value)]

\* checkPickupCollisions, 'spark' case: player.multiplier += 0.1 (kept in tenths)
collectSpark(p) == [p EXCEPT !.multiplier = @ + 1]

\* checkPickupCollisions, 'shard' case: addScore(pickup.value * player.multiplier),
\* addScore taking Math.floor
shardScore(p) == (ShardValue * p.multiplier) \div 10

\* what a tick's pickups do to the Player
collectPickup(p, pickup) ==
  IF pickup = "cell" THEN collectCell(p, 1)
  ELSE IF pickup = "spark" THEN collectSpark(p)
  ELSE p

\* pulse: the score of the perfect-pulse bonus, 50 * (store.multiplier || 1);
\* the store has no field multiplier, so the factor is StoreMultiplier
perfectPulseScore(p) == PerfectBonus * StoreMultiplier

\* pulse: chargeRatio > 0.9
isPerfect(p) == 10 * p.charge > 9 * p.maxCharge

(***************************************************************************)
(* Mastery                                                                 *)
(***************************************************************************)
calculateRunMasteryXP(stats) == stats.nearMisses * NearMissXP

\* calculateRunMasteryXP: timing, for stats with a maxRhythmStreak
timingXPHighestOnly(stats) ==
  stats.perfectPulses * PerfectPulseXP
    + (IF stats.maxRhythmStreak >= 20 THEN RhythmStreak20
       ELSE IF stats.maxRhythmStreak >= 10 THEN RhythmStreak10
       ELSE IF stats.maxRhythmStreak >= 5 THEN RhythmStreak5
       ELSE IF stats.maxRhythmStreak >= 3 THEN RhythmStreak3 ELSE 0)

timingXP(stats) ==
  LET t0 == stats.perfectPulses * PerfectPulseXP
      t1 == IF stats.maxRhythmStreak >= 3 THEN t0 + RhythmStreak3 ELSE t0
      t2 == IF stats.maxRhythmStreak >= 5 THEN t1 + RhythmStreak5 ELSE t1
      t3 == IF stats.maxRhythmStreak >= 10 THEN t2 + RhythmStreak10 ELSE t2
  IN IF stats.maxRhythmStreak >= 20 THEN t3 + RhythmStreak20 ELSE t3

\* calculateRunBlueprints: baseBlueprints.  The score is an integer (addScore
\* floors what it adds) and basePerScore is the double next above 0.1, so
\* Math.floor(score * 0.1) is the integer quotient by 10
baseBlueprintsUnfloored(runScore) == runScore \div 10

baseBlueprints(runScore) == Max(MinBase, runScore \div 10)

calculateRunBlueprints(runScore, stats) ==
  baseBlueprints(runScore) + stats.perfectPulses * TimingBonusPerPerfect
    + stats.nearMisses * RiskBonusPerNearMiss

MASTERY_THRESHOLDS == <<0, 100, 250, 500, 800, 1200, 1700, 2300, 3000, 4000>>

\* the loop of getMasteryLevel from index i downwards (indices from 0)
RECURSIVE levelFrom(_, _)
levelFrom(xp, i) ==
  IF i < 0 THEN 1
  ELSE IF xp >= MASTERY_THRESHOLDS[i + 1] THEN i + 1
  ELSE levelFrom(xp, i - 1)

\* a table search that stops at the first threshold above xp, counting upwards
RECURSIVE levelUpFrom(_, _)
levelUpFrom(xp, i) ==
  IF i >= Len(MASTERY_THRESHOLDS) THEN 1
  ELSE IF xp < MASTERY_THRESHOLDS[i + 1] THEN i
  ELSE levelUpFrom(xp, i + 1)

getMasteryLevelWrapped(xp) == levelUpFrom(xp, 0)

getMasteryLevel(xp) == levelFrom(xp, Len(MASTERY_THRESHOLDS) - 1)

InSeq(x, s) == \E i \in 1..Len(s) : s[i] = x

\* checkMasteryUnlocks without its includes() tests
checkMasteryUnlocksUnguarded(xp, unlocked) ==
  IF getMasteryLevel(xp) >= 2 THEN <<"close_call">> ELSE <<>>

checkMasteryUnlocks(xp, unlocked) ==
  IF getMasteryLevel(xp) >= 2 /\ ~InSeq("close_call", unlocked)
  THEN <<"close_call">> ELSE <<>>

\* a filter that lets the whole catalog through
getAvailableUpgradesAll(unlocked) ==
  BaseUpgrades \cup MasteryUpgrades \cup BlueprintUpgrades

getAvailableUpgrades(unlocked) ==
  BaseUpgrades \cup {u \in MasteryUpgrades \cup BlueprintUpgrades : InSeq(u, unlocked)}

createInitialMasteryStats == [nearMisses |-> 0, phaseThroughs |-> 0, perfectPulses |-> 0]

(***************************************************************************)
(* Persistence                                                             *)
(***************************************************************************)
RefS == 0   \* the progress object of DEFAULT_PERSISTENT (store.ts)
RefM == 1   \* the progress object of DEFAULT_MASTERY (mastery.ts)
ParsedRefs == 2..(MaxPending + MaxTicksPerFrame + 3)   \* progress objects made by JSON.parse
Refs == {RefS, RefM} \cup ParsedRefs

NoData == [present |-> FALSE, xp |-> 0, totalRuns |-> 0, highScore |-> 0, blueprints |-> 0,
           unlockedUpgrades |-> <<>>]

\* JSON.stringify(data), read through the progress reference
Stringify(m, h) ==
  [present |-> TRUE, xp |-> h[m.progress], totalRuns |-> m.totalRuns,
   highScore |-> m.highScore, blueprints |-> m.blueprints, unlockedUpgrades |-> m.unlockedUpgrades]

DEFAULT_PERSISTENT ==
  [progress |-> RefS, totalRuns |-> 0, highScore |-> 0, blueprints |-> 0,
   unlockedUpgrades |-> <<>>]
DEFAULT_MASTERY ==
  [progress |-> RefM, totalRuns |-> 0, highScore |-> 0, blueprints |-> 0,
   unlockedUpgrades |-> <<>>]

NoTaskData == [progress |-> RefS, totalRuns |-> 0, highScore |-> 0, blueprints |-> 0,
   unlockedUpgrades |-> <<>>]

Task(kind, cont, snap, nm, unlocks, rewards) ==
  [kind |-> kind, cont |-> cont, snap |-> snap, nm |-> nm, unlocks |-> unlocks,
   rewards |-> rewards]

LoadTask(cont) == Task("load", cont, NoData, NoTaskData, <<>>, 0)
TimeoutTask(cont) == Task("timeout", cont, NoData, NoTaskData, <<>>, 0)

RemoveAt(s, i) == SubSeq(s, 1, i - 1) \o SubSeq(s, i + 1, Len(s))

\* the operations in flight are kept in one order (saves in the order of
\* their calls, then timeouts, then loads): any of them may complete next
Rank(t) == IF t.kind = "save" THEN 1
           ELSE IF t.kind = "timeout" THEN 2
           ELSE IF t.cont = "home" THEN 3 ELSE 4

Insert(ts, t) ==
  LET n == Cardinality({i \in 1..Len(ts) : Rank(ts[i]) <= Rank(t)})
  IN SubSeq(ts, 1, n) \o <<t>> \o SubSeq(ts, n + 1, Len(ts))

LiveRefs(pm, ts) ==
  {RefS, RefM, pm.progress} \cup {ts[i].nm.progress : i \in 1..Len(ts)}

Collect(h, pm, ts) == [r \in Refs |-> IF r \in LiveRefs(pm, ts) THEN h[r] ELSE 0]

FreshRef(pm, ts) == CHOOSE r \in ParsedRefs :
  /\ r \notin LiveRefs(pm, ts)
  /\ \A q \in ParsedRefs : q \notin LiveRefs(pm, ts) => r <= q

(***************************************************************************)
(* Store actions (store.ts)                                                *)
(***************************************************************************)
\* startGame: INITIAL_STATE with phase 'countdown'; persistentMastery is kept
startGame ==
  /\ phase' = "countdown"
  /\ timer' = maxTime
  /\ lastUpgradeTime' = 0
  /\ upgradeChoices' = {}
  /\ selectedUpgrades' = {}
  /\ masteryStats' = createInitialMasteryStats
  /\ newUnlocks' = <<>>
  /\ runRewards' = -1
  /\ score' = 0
  /\ perfectPulses' = 0
  /\ UNCHANGED persistentMastery
  /\ endRunCalls' = 0
  /\ runsStarted' = runsStarted + 1

\* the fields resetGame sets, as a record the callers assign
resetGameState ==
  [phase |-> "menu", timer |-> maxTime, lastUpgradeTime |-> 0, upgradeChoices |-> {},
   selectedUpgrades |-> {}, masteryStats |-> createInitialMasteryStats,
   newUnlocks |-> <<>>, runRewards |-> -1, score |-> 0, perfectPulses |-> 0]

\* triggerUpgradeChoice, called with the store's timer already set to newTimer
triggerUpgradeChoice(newTimer) ==
  LET available == getAvailableUpgrades(persistentMastery.unlockedUpgrades) \ selectedUpgrades
      n == Min(3, Cardinality(available))
  IN /\ phase' = "upgrade"
     /\ upgradeChoices' \in {c \in SUBSET available : Cardinality(c) = n}
     /\ lastUpgradeTime' = maxTime - newTimer

\* endRun: highScore: Math.max(newMastery.highScore, state.score)
newHighScoreLast(prev, s) == s

newHighScore(prev, s) == Max(prev, s)

\* unlocks evaluated against the totals before this run's XP
unlockTotalsBeforeRun(h, h2) == h

\* endRun: checkMasteryUnlocks(newMastery) comes after progress += xpGained,
\* h the totals before and h2 after
unlockTotals(h, h2) == h2

\* the synchronous part of endRun, up to the await of saveMasteryData:
\* newMastery is a shallow copy, so progress is updated in place
endRunMastery(h) ==
  LET xpGained == calculateRunMasteryXP(masteryStats)
      rewards == calculateRunBlueprints(score, masteryStats)
      h2 == [h EXCEPT ![persistentMastery.progress] = @ + xpGained]
      unlocks == checkMasteryUnlocks(unlockTotals(h, h2)[persistentMastery.progress],
                                     persistentMastery.unlockedUpgrades)
      newMastery == [persistentMastery EXCEPT
                       !.totalRuns = @ + 1,
                       !.highScore = newHighScore(@, score),
                       !.blueprints = @ + rewards,
                       !.unlockedUpgrades = @ \o unlocks]
  IN [heap |-> h2,
      task |-> Task("save", "endRun", Stringify(newMastery, h2), newMastery, unlocks, rewards)]

endRun ==
  /\ heap' = endRunMastery(heap).heap
  /\ tasks' = Insert(tasks, endRunMastery(heap).task)
  /\ endRunCalls' = endRunCalls + 1

(***************************************************************************)
(* Engine (engine.ts)                                                      *)
(***************************************************************************)
\* GameEngine.stop
stop ==
  /\ running' = FALSE
  /\ rafPending' = IF animationFrameId = "live" THEN rafPending - 1 ELSE rafPending
  /\ animationFrameId' = "null"

\* requestAnimationFrame(this.loop) at the end of a loop call that ran no tick
\* (start and resume call loop with deltaTime 0)
loopNoTick ==
  /\ rafPending' = rafPending + 1
  /\ animationFrameId' = "live"

\* a fixedUpdate whose upgrade gate never opens
upgradeDueNever(elapsed) == FALSE

\* fixedUpdate: if (elapsed - store.lastUpgradeTime >= store.upgradeInterval)
upgradeDue(elapsed) == elapsed - lastUpgradeTime >= upgradeInterval

\* GameEngine.fixedUpdate(dt), dt one tick.  cell: a cell pickup is collected,
\* hit: a hazard that is not phase-exempt overlaps the player, nm: near misses
fixedUpdate(pickup, hit, nm) ==
  LET newTimer == timer - 1 IN
  IF newTimer <= 0 THEN
    /\ phase' = "ended"
    /\ endRun
    /\ stop
    /\ UNCHANGED <<timer, lastUpgradeTime, upgradeChoices, masteryStats, player, score>>
  ELSE IF upgradeDue(maxTime - newTimer) THEN
    /\ timer' = newTimer
    /\ triggerUpgradeChoice(newTimer)
    /\ UNCHANGED <<masteryStats, player, score, heap, tasks, endRunCalls, running,
                   rafPending, animationFrameId>>
  ELSE
    LET p1 == updatePlayer(player)
        p2 == collectPickup(p1, pickup)
        p3 == IF hit THEN damagePlayer(p2, 1) ELSE p2
    IN /\ timer' = newTimer
       /\ player' = p3
       /\ phase' = IF hit /\ damageEnds(p2, 1) THEN "ended" ELSE phase
       /\ score' = IF pickup = "shard" THEN score + shardScore(p1) ELSE score
       /\ masteryStats' = [masteryStats EXCEPT !.nearMisses = @ + nm]
       /\ UNCHANGED <<lastUpgradeTime, upgradeChoices, heap, tasks, endRunCalls, running,
                      rafPending, animationFrameId>>

\* a pending requestAnimationFrame callback fires: GameEngine.loop up to its
\* while loop.  named: the callback is the one animationFrameId names
LoopBegin(named, k) ==
  /\ pc = "idle"
  /\ rafPending > 0
  /\ IF named THEN animationFrameId = "live"
     ELSE rafPending > (IF animationFrameId = "live" THEN 1 ELSE 0)
  /\ Len(tasks) < MaxPending
  /\ rafPending' = rafPending - 1
  /\ animationFrameId' = IF named THEN "stale" ELSE animationFrameId
  /\ IF running
     THEN /\ pc' = "loop"
          /\ accumulator' = IF phase = "playing" THEN k ELSE 0
          /\ loopPhase' = phase
     ELSE UNCHANGED <<pc, accumulator, loopPhase>>
  /\ UNCHANGED <<storeVars, currentScreen, running, player, heap, storage, tasks,
                 endRunCalls, runsStarted, masteryLoaded, saveFailed, tickPhase, hz, calc, clock, pressed, sinceDamage>>

\* one iteration of the while loop of GameEngine.loop
LoopTick(pickup, hit, nm) ==
  /\ pc = "loop"
  /\ accumulator >= 1
  /\ nm = 0 \/ masteryStats.nearMisses < MaxNearMiss
  /\ pickup = "spark" => player.multiplier < 10 + MaxSparks
  /\ pickup = "shard" => score + shardScore(player) <= MaxScore
  /\ IF loopPhase = "playing"
     THEN /\ fixedUpdate(pickup, hit, nm)
          /\ tickPhase' = phase
     ELSE UNCHANGED <<phase, timer, lastUpgradeTime, upgradeChoices, masteryStats, player,
                      score, heap, tasks, endRunCalls, running, rafPending,
                      animationFrameId, tickPhase>>
  /\ accumulator' = accumulator - 1
  /\ UNCHANGED <<selectedUpgrades, persistentMastery, newUnlocks, runRewards, perfectPulses,
                 currentScreen, pc, loopPhase, storage, runsStarted, masteryLoaded,
                 saveFailed, hz, calc, clock, pressed, sinceDamage>>

\* the end of GameEngine.loop: requestAnimationFrame(this.loop)
LoopEnd ==
  /\ pc = "loop"
  /\ accumulator < 1
  /\ pc' = "idle"
  /\ rafPending' = rafPending + 1
  /\ animationFrameId' = "live"
  /\ tickPhase' = "none"
  /\ UNCHANGED <<storeVars, currentScreen, running, accumulator, loopPhase, player, heap,
                 storage, tasks, endRunCalls, runsStarted, masteryLoaded, saveFailed, hz, calc, clock, pressed, sinceDamage>>

\* GameEngine.handleTouchStart
handleTouchStart ==
  /\ pc = "idle"
  /\ currentScreen = "game"
  /\ phase = "playing"
  /\ player' = [player EXCEPT !.isCharging = TRUE]
  /\ UNCHANGED <<appVars, hz, calc, clock, pressed, sinceDamage>>

\* handleTouchEnd after its phase test: pulse() when charge exceeds the
\* threshold, then isCharging = false and charge = 0
release ==
  /\ (player.charge > 0 /\ isPerfect(player)) => perfectPulses < MaxPerfect
  /\ player' = IF player.charge > 0
               THEN [player EXCEPT !.phaseActive = TRUE, !.phaseTimer = PhaseTicks,
                                   !.isCharging = FALSE, !.charge = 0]
               ELSE [player EXCEPT !.isCharging = FALSE, !.charge = 0]
  /\ IF player.charge > 0 /\ isPerfect(player)
     THEN /\ perfectPulses' = perfectPulses + 1
          /\ masteryStats' = [masteryStats EXCEPT !.perfectPulses = @ + 1]
          /\ score' = score + perfectPulseScore(player)
     ELSE UNCHANGED <<perfectPulses, masteryStats, score>>

\* GameEngine.handleTouchEnd with pulse
handleTouchEnd ==
  /\ pc = "idle"
  /\ currentScreen = "game"
  /\ phase = "playing"
  /\ release
  /\ UNCHANGED <<phase, timer, lastUpgradeTime, upgradeChoices, selectedUpgrades,
                 persistentMastery, newUnlocks, runRewards, currentScreen, running,
                 animationFrameId, rafPending, pc, accumulator, loopPhase, heap, storage,
                 tasks, endRunCalls, runsStarted, masteryLoaded, saveFailed, tickPhase, hz, calc, clock, pressed, sinceDamage>>

\* the gestures of GameCanvas: onBegin calls engine.handleTouchStart, which
\* returns at once unless the phase is 'playing'
onBegin ==
  /\ pc = "idle"
  /\ currentScreen = "game"
  /\ ~pressed
  /\ pressed' = TRUE
  /\ player' = IF phase = "playing" THEN [player EXCEPT !.isCharging = TRUE] ELSE player
  /\ UNCHANGED <<appVars, hz, calc, clock, sinceDamage>>

\* onEnd calls engine.handleTouchEnd, which returns at once unless the phase
\* is 'playing'
onEnd ==
  /\ pc = "idle"
  /\ currentScreen = "game"
  /\ pressed
  /\ pressed' = FALSE
  /\ IF phase = "playing" THEN release
     ELSE UNCHANGED <<player, perfectPulses, masteryStats, score>>
  /\ UNCHANGED <<phase, timer, lastUpgradeTime, upgradeChoices, selectedUpgrades,
                 persistentMastery, newUnlocks, runRewards, currentScreen, running,
                 animationFrameId, rafPending, pc, accumulator, loopPhase, heap, storage,
                 tasks, endRunCalls, runsStarted, masteryLoaded, saveFailed, tickPhase, hz, calc, clock, sinceDamage>>

(***************************************************************************)
(* Screen handlers (app/index.tsx)                                         *)
(***************************************************************************)
handlePlay ==
  /\ pc = "idle"
  /\ currentScreen = "home"
  /\ runsStarted < MaxRuns
  /\ startGame
  /\ currentScreen' = "game"
  /\ UNCHANGED <<running, animationFrameId, rafPending, pc, accumulator, loopPhase, player,
                 heap, storage, tasks, masteryLoaded, saveFailed, tickPhase, hz, calc, clock, pressed, sinceDamage>>

\* setPhase('playing'); engine.start()
handleCountdownComplete ==
  /\ pc = "idle"
  /\ currentScreen = "game"
  /\ phase = "countdown"
  /\ phase' = "playing"
  /\ running' = TRUE
  /\ accumulator' = 0
  /\ player' = createPlayer
  /\ loopNoTick
  /\ UNCHANGED <<timer, lastUpgradeTime, upgradeChoices, selectedUpgrades, masteryStats,
                 persistentMastery, newUnlocks, runRewards, score, perfectPulses, currentScreen, pc, loopPhase,
                 heap, storage, tasks, endRunCalls, runsStarted, masteryLoaded, saveFailed, tickPhase, hz, calc, clock, pressed, sinceDamage>>

\* the effect list of an upgrade in the catalog; a multiply value and a
\* fractional add value (nearMissShield) are in hundredths
effects(u) ==
  CASE u = "extra_heart" -> <<[stat |-> "maxHp", modifier |-> "add", value |-> 1]>>
    [] u = "power_dash" -> <<[stat |-> "dashPower", modifier |-> "multiply", value |-> 120]>>
    [] u = "shard_value" -> <<[stat |-> "shardMultiplier", modifier |-> "multiply", value |-> 125]>>
    [] u = "close_call" -> <<[stat |-> "nearMissShield", modifier |-> "add", value |-> 30]>>
    [] u = "timing_echo" -> <<[stat |-> "timingEcho", modifier |-> "add", value |-> 1]>>

\* one effect on the Player: the switch on effect.stat, which has no case for
\* dashPower; of its cases only maxHp is a stat of the catalog in the model
applyEffect(p, e) ==
  CASE e.stat = "maxHp" ->
         LET m == IF e.modifier = "add" THEN p.maxHp + e.value
                  ELSE (p.maxHp * e.value) \div 100
         IN [p EXCEPT !.maxHp = m, !.hp = Min(m, p.hp)]
    [] OTHER -> p

RECURSIVE applyEffects(_, _)
applyEffects(p, es) ==
  IF es = <<>> THEN p ELSE applyEffects(applyEffect(p, Head(es)), Tail(es))

\* the effects of an upgrade on the Player (upgrade.effects.forEach)
applyUpgrade(p, u) == applyEffects(p, effects(u))

\* selectUpgrade(upgrade); effects; engine.resume()
handleSelectUpgrade(u) ==
  /\ pc = "idle"
  /\ currentScreen = "game"
  /\ phase = "upgrade"
  /\ u \in upgradeChoices
  /\ phase' = "playing"
  /\ selectedUpgrades' = selectedUpgrades \cup {u}
  /\ upgradeChoices' = {}
  /\ player' = applyUpgrade(player, u)
  /\ running' = TRUE
  /\ loopNoTick
  /\ UNCHANGED <<timer, lastUpgradeTime, masteryStats, persistentMastery, newUnlocks,
                 runRewards, score, perfectPulses, currentScreen, pc, accumulator, loopPhase, heap, storage, tasks,
                 endRunCalls, runsStarted, masteryLoaded, saveFailed, tickPhase, hz, calc, clock, pressed, sinceDamage>>

handleRetry ==
  /\ pc = "idle"
  /\ currentScreen = "game"
  /\ phase = "ended"
  /\ runsStarted < MaxRuns
  /\ stop
  /\ startGame
  /\ UNCHANGED <<currentScreen, pc, accumulator, loopPhase, player, heap, storage, tasks,
                 masteryLoaded, saveFailed, tickPhase, hz, calc, clock, pressed, sinceDamage>>

\* handleHome up to its first await: the 100 ms timeout
handleHome ==
  /\ pc = "idle"
  /\ currentScreen = "game"
  /\ phase = "ended"
  /\ Len(tasks) < MaxPending
  /\ stop
  /\ tasks' = Insert(tasks, TimeoutTask("home"))
  /\ UNCHANGED <<storeVars, currentScreen, pc, accumulator, loopPhase, player, heap, storage,
                 endRunCalls, runsStarted, masteryLoaded, saveFailed, tickPhase, hz, calc, clock, pressed, sinceDamage>>

(***************************************************************************)
(* Completion of asynchronous operations                                   *)
(***************************************************************************)
\* saveMasteryData for the pending save i: the write succeeds (ok) or throws;
\* the catch block logs and falls through, so the promise resolves with
\* undefined either way
saveMasteryData(i, ok) ==
  [storage |-> IF ok THEN tasks[i].snap ELSE storage, settled |-> "resolved"]

\* saveMasteryData resolves (a failed write is caught and logged), then the
\* rest of endRun: set({persistentMastery, newUnlocks, runRewards})
SaveComplete(i, ok) ==
  /\ pc = "idle"
  /\ i \in 1..Len(tasks)
  /\ tasks[i].kind = "save"
  /\ tasks[i].cont = "endRun"
  /\ storage' = saveMasteryData(i, ok).storage
  /\ persistentMastery' = tasks[i].nm
  /\ newUnlocks' = tasks[i].unlocks
  /\ runRewards' = tasks[i].rewards
  /\ saveFailed' = (saveFailed \/ ~ok)
  /\ tasks' = RemoveAt(tasks, i)
  /\ heap' = Collect(heap, tasks[i].nm, RemoveAt(tasks, i))
  /\ UNCHANGED <<phase, timer, lastUpgradeTime, upgradeChoices, selectedUpgrades,
                 masteryStats, currentScreen, running, animationFrameId, rafPending, pc,
                 accumulator, loopPhase, player, endRunCalls, runsStarted, masteryLoaded, score, perfectPulses,
                 tickPhase, hz, calc, clock, pressed, sinceDamage>>

\* loadMasteryData: the parsed item over DEFAULT_MASTERY, or DEFAULT_MASTERY
\* (shallow copy) when nothing is stored or the read fails
loadMasteryData(ok, ts) ==
  IF ok /\ storage.present
  THEN [progress |-> FreshRef(persistentMastery, ts), totalRuns |-> storage.totalRuns,
        highScore |-> storage.highScore, blueprints |-> storage.blueprints, unlockedUpgrades |-> storage.unlockedUpgrades]
  ELSE DEFAULT_MASTERY

loadedHeap(ok, ts) ==
  IF ok /\ storage.present
  THEN [heap EXCEPT ![FreshRef(persistentMastery, ts)] = storage.xp]
  ELSE heap

\* loadMastery resolves: set({persistentMastery})
LoadComplete(i, ok) ==
  /\ pc = "idle"
  /\ i \in 1..Len(tasks)
  /\ tasks[i].kind = "load"
  /\ tasks[i].cont = "set"
  /\ persistentMastery' = loadMasteryData(ok, tasks)
  /\ tasks' = RemoveAt(tasks, i)
  /\ heap' = Collect(loadedHeap(ok, tasks), loadMasteryData(ok, tasks), RemoveAt(tasks, i))
  /\ masteryLoaded' = TRUE
  /\ UNCHANGED saveFailed
  /\ UNCHANGED <<phase, timer, lastUpgradeTime, upgradeChoices, selectedUpgrades,
                 masteryStats, newUnlocks, runRewards, score, perfectPulses, currentScreen, running,
                 animationFrameId, rafPending, pc, accumulator, loopPhase, player, storage,
                 endRunCalls, runsStarted, tickPhase, hz, calc, clock, pressed, sinceDamage>>

\* handleHome after its timeout: await loadMastery()
HomeTimeout(i) ==
  /\ pc = "idle"
  /\ i \in 1..Len(tasks)
  /\ tasks[i].kind = "timeout"
  /\ tasks' = Insert(RemoveAt(tasks, i), LoadTask("home"))
  /\ UNCHANGED <<storeVars, currentScreen, running, animationFrameId, rafPending, pc,
                 accumulator, loopPhase, player, heap, storage, endRunCalls, runsStarted,
                 masteryLoaded, saveFailed, tickPhase, hz, calc, clock, pressed, sinceDamage>>

\* handleHome after loadMastery: resetGame(); setCurrentScreen('home');
\* HomeScreen mounts and calls loadMastery()
HomeComplete(i, ok) ==
  /\ pc = "idle"
  /\ i \in 1..Len(tasks)
  /\ tasks[i].kind = "load"
  /\ tasks[i].cont = "home"
  /\ persistentMastery' = loadMasteryData(ok, tasks)
  /\ tasks' = IF currentScreen = "home" THEN RemoveAt(tasks, i)
              ELSE Insert(RemoveAt(tasks, i), LoadTask("set"))
  /\ heap' = Collect(loadedHeap(ok, tasks), loadMasteryData(ok, tasks), RemoveAt(tasks, i))
  /\ masteryLoaded' = TRUE
  /\ UNCHANGED saveFailed
  /\ phase' = resetGameState.phase
  /\ timer' = resetGameState.timer
  /\ lastUpgradeTime' = resetGameState.lastUpgradeTime
  /\ upgradeChoices' = resetGameState.upgradeChoices
  /\ selectedUpgrades' = resetGameState.selectedUpgrades
  /\ masteryStats' = resetGameState.masteryStats
  /\ newUnlocks' = resetGameState.newUnlocks
  /\ runRewards' = resetGameState.runRewards
  /\ score' = resetGameState.score
  /\ perfectPulses' = resetGameState.perfectPulses
  /\ currentScreen' = "home"
  /\ UNCHANGED <<running, animationFrameId, rafPending, pc, accumulator, loopPhase, player,
                 storage, endRunCalls, runsStarted, tickPhase, hz, calc, clock, pressed, sinceDamage>>

(***************************************************************************)
(* The unlocks screen (UnlocksScreen.tsx) and its store actions            *)
(***************************************************************************)
\* handleUnlocks: setCurrentScreen('unlocks')
handleUnlocks ==
  /\ pc = "idle"
  /\ currentScreen = "home"
  /\ currentScreen' = "unlocks"
  /\ UNCHANGED <<storeVars, running, animationFrameId, rafPending, pc, accumulator, loopPhase,
                 player, heap, storage, tasks, endRunCalls, runsStarted, masteryLoaded, saveFailed,
                 tickPhase, hz, calc, clock, pressed, sinceDamage>>

\* the buy button, handlePurchaseUpgrade and purchaseUpgrade up to its await
\* of saveMasteryData
purchaseUpgrade(upgradeId, cost) ==
  /\ pc = "idle"
  /\ currentScreen = "unlocks"
  /\ Len(tasks) < MaxPending
  /\ persistentMastery.blueprints >= cost
  /\ ~InSeq(upgradeId, persistentMastery.unlockedUpgrades)
  /\ LET newMastery == [persistentMastery EXCEPT
                          !.blueprints = @ - cost,
                          !.unlockedUpgrades = @ \o <<upgradeId>>]
     IN tasks' = Insert(tasks, Task("save", "purchase", Stringify(newMastery, heap),
                                    newMastery, <<>>, 0))
  /\ UNCHANGED <<storeVars, currentScreen, running, animationFrameId, rafPending, pc,
                 accumulator, loopPhase, player, heap, storage, endRunCalls, runsStarted,
                 masteryLoaded, saveFailed, tickPhase, hz, calc, clock, pressed, sinceDamage>>

\* selectSkin('default') up to its await of saveMasteryData: the skin is
\* always unlocked and no field kept here changes
selectSkin ==
  /\ pc = "idle"
  /\ currentScreen = "unlocks"
  /\ Len(tasks) < MaxPending
  /\ tasks' = Insert(tasks, Task("save", "select", Stringify(persistentMastery, heap),
                                 persistentMastery, <<>>, 0))
  /\ UNCHANGED <<storeVars, currentScreen, running, animationFrameId, rafPending, pc,
                 accumulator, loopPhase, player, heap, storage, endRunCalls, runsStarted,
                 masteryLoaded, saveFailed, tickPhase, hz, calc, clock, pressed, sinceDamage>>

\* saveMasteryData resolves in purchaseUpgrade or selectSkin:
\* set({persistentMastery: newMastery})
PurchaseComplete(i, ok) ==
  /\ pc = "idle"
  /\ i \in 1..Len(tasks)
  /\ tasks[i].kind = "save"
  /\ tasks[i].cont \in {"purchase", "select"}
  /\ storage' = saveMasteryData(i, ok).storage
  /\ persistentMastery' = tasks[i].nm
  /\ tasks' = RemoveAt(tasks, i)
  /\ heap' = Collect(heap, tasks[i].nm, RemoveAt(tasks, i))
  /\ UNCHANGED <<phase, timer, lastUpgradeTime, upgradeChoices, selectedUpgrades,
                 masteryStats, newUnlocks, runRewards, score, perfectPulses, currentScreen, running,
                 animationFrameId, rafPending, pc, accumulator, loopPhase, player,
                 endRunCalls, runsStarted, masteryLoaded, saveFailed, tickPhase, hz, calc, clock, pressed, sinceDamage>>

\* handleBackFromUnlocks up to its await of loadMastery()
handleBackFromUnlocks ==
  /\ pc = "idle"
  /\ currentScreen = "unlocks"
  /\ Len(tasks) < MaxPending
  /\ tasks' = Insert(tasks, LoadTask("back"))
  /\ UNCHANGED <<storeVars, currentScreen, running, animationFrameId, rafPending, pc,
                 accumulator, loopPhase, player, heap, storage, endRunCalls, runsStarted,
                 masteryLoaded, saveFailed, tickPhase, hz, calc, clock, pressed, sinceDamage>>

\* handleBackFromUnlocks after loadMastery: setCurrentScreen('home');
\* HomeScreen mounts and calls loadMastery()
BackComplete(i, ok) ==
  /\ pc = "idle"
  /\ i \in 1..Len(tasks)
  /\ tasks[i].kind = "load"
  /\ tasks[i].cont = "back"
  /\ persistentMastery' = loadMasteryData(ok, tasks)
  /\ tasks' = IF currentScreen = "home" THEN RemoveAt(tasks, i)
              ELSE Insert(RemoveAt(tasks, i), LoadTask("set"))
  /\ heap' = Collect(loadedHeap(ok, tasks), loadMasteryData(ok, tasks), RemoveAt(tasks, i))
  /\ masteryLoaded' = TRUE
  /\ UNCHANGED saveFailed
  /\ currentScreen' = "home"
  /\ UNCHANGED <<phase, timer, lastUpgradeTime, upgradeChoices, selectedUpgrades,
                 masteryStats, newUnlocks, runRewards, score, perfectPulses, running, animationFrameId, rafPending,
                 pc, accumulator, loopPhase, player, storage, endRunCalls, runsStarted,
                 tickPhase, hz, calc, clock, pressed, sinceDamage>>

(***************************************************************************)
(* The application                                                         *)
(***************************************************************************)
StoredSave == [present |-> TRUE, xp |-> 90, totalRuns |-> 1, highScore |-> 60, blueprints |-> 80,
               unlockedUpgrades |-> <<>>]

\* the save of a session that reached risk level 2
StoredUnlocked == [present |-> TRUE, xp |-> 105, totalRuns |-> 2, highScore |-> 60,
                   blueprints |-> 80, unlockedUpgrades |-> <<"close_call">>]

NoHazard == [none |-> TRUE]

NoClock == [lastTime |-> 0, ticks |-> 0]

NoCall == [fn |-> "none", args |-> <<>>, done |-> FALSE, result |-> 0]

\* after the first render: the engine is constructed, the init effect and the
\* mount effect of HomeScreen have each called loadMastery()
InitApp ==
  /\ phase = "menu"
  /\ timer = maxTime
  /\ lastUpgradeTime = 0
  /\ upgradeChoices = {}
  /\ selectedUpgrades = {}
  /\ masteryStats = createInitialMasteryStats
  /\ persistentMastery = DEFAULT_PERSISTENT
  /\ newUnlocks = <<>>
  /\ runRewards = -1
  /\ score = 0
  /\ perfectPulses = 0
  /\ currentScreen = "home"
  /\ running = FALSE
  /\ animationFrameId = "null"
  /\ rafPending = 0
  /\ pc = "idle"
  /\ accumulator = 0
  /\ loopPhase = "menu"
  /\ player = createPlayer
  /\ heap = [r \in Refs |-> 0]
  /\ tasks = <<LoadTask("set"), LoadTask("set")>>
  /\ endRunCalls = 0
  /\ runsStarted = 0
  /\ masteryLoaded = FALSE
  /\ saveFailed = FALSE
  /\ tickPhase = "none"
  /\ hz = NoHazard
  /\ clock = NoClock
  /\ pressed = FALSE
  /\ sinceDamage = -1

\* a first launch, or a launch over the save of an earlier session
Init == InitApp /\ storage \in {NoData, StoredSave} /\ calc = NoCall

\* a frame: a callback of loop fires, the while loop runs its ticks, the next
\* callback is requested.  K: the ticks a frame may consume; Cells, Hits, NMs:
\* what the pickups and hazards may do in a tick
AllPickups == {"none", "cell", "shard", "spark"}

Frame(K, Pickups, Hits, NMs) ==
  \/ \E named \in BOOLEAN, k \in K : LoopBegin(named, k)
  \/ \E pickup \in Pickups, hit \in Hits, nm \in NMs : LoopTick(pickup, hit, nm)
  \/ LoopEnd

Touch ==
  \/ handleTouchStart
  \/ handleTouchEnd

RunInput ==
  \/ handlePlay
  \/ handleCountdownComplete
  \/ \E u \in BaseUpgrades \cup MasteryUpgrades \cup BlueprintUpgrades : handleSelectUpgrade(u)

EndInput ==
  \/ handleRetry
  \/ handleHome

\* Oks: whether a storage operation may succeed (TRUE) or fail (FALSE)
Async(Oks) ==
  \/ \E i \in 1..(MaxPending + MaxTicksPerFrame), ok \in Oks : SaveComplete(i, ok)
  \/ \E i \in 1..(MaxPending + MaxTicksPerFrame), ok \in Oks : LoadComplete(i, ok)
  \/ \E i \in 1..(MaxPending + MaxTicksPerFrame) : HomeTimeout(i)
  \/ \E i \in 1..(MaxPending + MaxTicksPerFrame), ok \in Oks : HomeComplete(i, ok)

\* the unlocks screen and its storage operations
Shop(Oks) ==
  \/ handleUnlocks
  \/ \E u \in BlueprintUpgrades : purchaseUpgrade(u, TimingEchoCost)
  \/ selectSkin
  \/ handleBackFromUnlocks
  \/ \E i \in 1..(MaxPending + MaxTicksPerFrame), ok \in Oks : PurchaseComplete(i, ok)
  \/ \E i \in 1..(MaxPending + MaxTicksPerFrame), ok \in Oks : BackComplete(i, ok)

\* the application over runs that end by their timer, at one tick per frame
\* and with a storage that does not fail: screens, runs, loads and saves
Next ==
  \/ Frame({1}, {"none"}, {FALSE}, 0..1)
  \/ RunInput
  \/ EndInput
  \/ Async({TRUE})

Spec == Init /\ [][Next]_vars

\* one run of the engine with every input of a tick, frames of several ticks
\* and the touch events; the loads and saves stay in flight
NextRun ==
  \/ Frame(0..MaxTicksPerFrame, AllPickups, BOOLEAN, {0})
  \/ Touch
  \/ RunInput

InitRun == Init /\ storage = NoData

SpecRun == InitRun /\ [][NextRun]_vars

\* the home and unlocks screens before any run, with a storage that may fail
NextShop ==
  \/ Shop(BOOLEAN)
  \/ \E i \in 1..(MaxPending + MaxTicksPerFrame), ok \in BOOLEAN : LoadComplete(i, ok)

SpecShop == Init /\ [][NextShop]_vars

\* the application with a storage that may fail
NextFail ==
  \/ Frame({1}, {"none"}, {FALSE}, 0..1)
  \/ RunInput
  \/ EndInput
  \/ Async(BOOLEAN)

SpecFail == Init /\ [][NextFail]_vars

\* one run from a stored save, with the unlocks screen before and after it
NextStore ==
  \/ Frame({1}, {"none"}, {FALSE}, 0..1)
  \/ (runsStarted = 0 /\ handlePlay)
  \/ handleCountdownComplete
  \/ \E u \in BaseUpgrades \cup MasteryUpgrades \cup BlueprintUpgrades : handleSelectUpgrade(u)
  \/ handleHome
  \/ Async({TRUE})
  \/ handleUnlocks
  \/ \E u \in BlueprintUpgrades : purchaseUpgrade(u, TimingEchoCost)
  \/ handleBackFromUnlocks
  \/ \E i \in 1..(MaxPending + MaxTicksPerFrame) : PurchaseComplete(i, TRUE)
  \/ \E i \in 1..(MaxPending + MaxTicksPerFrame) : BackComplete(i, TRUE)

\* a launch over a save, with or without a mastery unlock already in it
InitStore == InitApp /\ storage \in {StoredSave, StoredUnlocked} /\ calc = NoCall

SpecStore == InitStore /\ [][NextStore]_vars

\* one scored run from a stored save: shards, pulses, and the loads and the
\* save completing at any moment
NextScore ==
  \/ Frame({1}, {"none", "shard"}, {FALSE}, 0..1)
  \/ Touch
  \/ (runsStarted = 0 /\ handlePlay)
  \/ handleCountdownComplete
  \/ \E u \in BaseUpgrades \cup MasteryUpgrades \cup BlueprintUpgrades : handleSelectUpgrade(u)
  \/ \E i \in 1..(MaxPending + MaxTicksPerFrame) : SaveComplete(i, TRUE)
  \/ \E i \in 1..(MaxPending + MaxTicksPerFrame) : LoadComplete(i, TRUE)

SpecScore == InitStore /\ [][NextScore]_vars

\* one run with presses that begin and end in any phase
NextTouch ==
  \/ Frame({1}, {"none"}, {FALSE}, {0})
  \/ RunInput
  \/ onBegin
  \/ onEnd

SpecTouch == InitRun /\ [][NextTouch]_vars

\* frames keep coming while the application is in the foreground
FairSpecRun == SpecRun /\ WF_vars(Frame(0..MaxTicksPerFrame, AllPickups, BOOLEAN, {0}))

(***************************************************************************)
(* Hazard system (hazards.ts): one hazard and the player, on integer pixels *)
(***************************************************************************)
PlayerRadius == 20
NEAR_MISS_THRESHOLD == 25
PlayerX == 195          \* createPlayer: screenWidth / 2; velocity.x is never set
PlayerStartY == 100
WallHeight == 20
WallWidth == 100        \* a width in [60, 160)
LaserHeight == 12
DroneRadius == 18
LaserAhead == 338       \* the nearest a laser spawns ahead: screenHeight * 0.4

\* bounds of the hazard model
BaseStep == 20              \* pixels the player climbs in a tick
ChargeStep == 12            \* the same while charging (0.6 of BaseStep)
WallAhead == 60             \* distance of the wall ahead of the player at the start
MaxTravel == 160            \* pixels climbed before the hazard is left behind
DroneTelegraphTicks == 2    \* ticks of the drone's telegraph
LaserTelegraphTicks == 2    \* ticks of the laser's telegraph
LaserActiveTicks == 3       \* ticks of the laser's active phase
LaserNearTicks == 2         \* ticks of the final window in which a laser near miss counts
DroneStep == 20             \* change of the drone's distance in a tick
MaxDroneDist == 80          \* largest distance of the drone that is tracked

Sq(a) == a * a
Abs(a) == IF a < 0 THEN -a ELSE a

WallXs == {150, 210, 225}        \* head-on, clipping the edge, passing beside
LaserWidths == {120, 160, 180}   \* gapPosition of the left beam: far, near, overlapping in x

Hazard(type, phaseable, x, y, width, height, radius, telegraphed, telegraphTimer, dist) ==
  [type |-> type, phaseable |-> phaseable, active |-> TRUE, x |-> x, y |-> y,
   width |-> width, height |-> height, radius |-> radius, telegraphed |-> telegraphed,
   telegraphTimer |-> telegraphTimer, nearMissChecked |-> FALSE, dist |-> dist,
   px |-> PlayerX, py |-> PlayerStartY, nearMisses |-> 0, phaseThroughs |-> 0, hits |-> 0]

\* spawnHazards: the hazards it can make, placed relative to the player
SpawnedHazards ==
  {Hazard("wall", ph, x, PlayerStartY + WallAhead, WallWidth, WallHeight, 0, FALSE, 0, 0) :
     ph \in BOOLEAN, x \in WallXs}
  \cup {Hazard("drone", ph, 0, 0, 0, 0, DroneRadius, TRUE, DroneTelegraphTicks, MaxDroneDist) :
     ph \in BOOLEAN}
  \cup {Hazard("laser", TRUE, 0, PlayerStartY + LaserAhead, w, LaserHeight, 0, TRUE,
               LaserTelegraphTicks, 0) : w \in LaserWidths}

\* a laser whose active phase ends by starting the telegraph again
updateLaserRearmed(h) ==
  IF h.telegraphTimer > 0 THEN
    IF h.telegraphTimer - 1 <= 0
    THEN [h EXCEPT !.telegraphed = FALSE, !.telegraphTimer = -LaserActiveTicks]
    ELSE [h EXCEPT !.telegraphTimer = @ - 1]
  ELSE IF h.telegraphTimer < 0 THEN
    IF h.telegraphTimer + 1 >= 0
    THEN [h EXCEPT !.telegraphTimer = LaserTelegraphTicks, !.telegraphed = TRUE]
    ELSE [h EXCEPT !.telegraphTimer = @ + 1]
  ELSE h

\* updateHazards, case 'laser': telegraphTimer counts the telegraph down, then
\* is set negative and counts the active phase up to zero
updateLaser(h) ==
  IF h.telegraphTimer > 0 THEN
    IF h.telegraphTimer - 1 <= 0
    THEN [h EXCEPT !.telegraphed = FALSE, !.telegraphTimer = -LaserActiveTicks]
    ELSE [h EXCEPT !.telegraphTimer = @ - 1]
  ELSE IF h.telegraphTimer < 0 THEN
    IF h.telegraphTimer + 1 >= 0
    THEN [h EXCEPT !.telegraphTimer = @ + 1, !.active = FALSE]
    ELSE [h EXCEPT !.telegraphTimer = @ + 1]
  ELSE h

\* updateHazards for one hazard.  The drone's chase is kept as the change dd
\* of its distance to the player
updateHazards(h, dd) ==
  IF ~h.active THEN h
  ELSE IF h.type = "drone" THEN
    LET d == Max(0, Min(MaxDroneDist, h.dist + dd)) IN
    IF h.telegraphed /\ h.telegraphTimer > 0
    THEN [h EXCEPT !.telegraphTimer = @ - 1, !.dist = d]
    ELSE [h EXCEPT !.telegraphed = FALSE, !.dist = d]
  ELSE IF h.type = "laser" THEN updateLaser(h)
  ELSE h

\* squared distance of the player's centre to the closest point of the wall
wallDistSq(h) ==
  LET closestX == Max(h.x, Min(h.px, h.x + h.width))
      closestY == Max(h.y, Min(h.py, h.y + h.height))
  IN Sq(h.px - closestX) + Sq(h.py - closestY)

wallCollision(h) == wallDistSq(h) < Sq(PlayerRadius)

\* wall: the near-miss condition
wallNearMiss(h) ==
  /\ ~h.nearMissChecked
  /\ ~wallCollision(h)
  /\ wallDistSq(h) < Sq(PlayerRadius + NEAR_MISS_THRESHOLD)
  /\ h.py - PlayerRadius > h.y + h.height

\* the phase-through condition without the nearMissChecked guard
wallPhaseThroughUnguarded(h, wasPhased, checked) ==
  /\ wasPhased
  /\ Abs(2 * h.py - (2 * h.y + h.height)) < 2 * PlayerRadius + h.height + 20
  /\ h.px > h.x - PlayerRadius
  /\ h.px < h.x + h.width + PlayerRadius

\* wall: the phase-through condition, read after the near-miss block has run
wallPhaseThrough(h, wasPhased, checked) ==
  /\ wasPhased
  /\ ~checked
  /\ Abs(2 * h.py - (2 * h.y + h.height)) < 2 * PlayerRadius + h.height + 20
  /\ h.px > h.x - PlayerRadius
  /\ h.px < h.x + h.width + PlayerRadius

\* the damage gate without the early return for a phased player
damageGateNoPhase(wasPhased, collision) == collision

\* the damage gate at the end of the forEach body: if (wasPhased) return;
\* if (collision) damagePlayer(...)
damageGate(wasPhased, collision) == ~wasPhased /\ collision

Result(h, checked, nm, pt, collision, wasPhased) ==
  [h |-> [h EXCEPT !.nearMissChecked = checked],
   nearMisses |-> nm, phaseThroughs |-> pt, damage |-> damageGate(wasPhased, collision)]

checkWall(h, wasPhased) ==
  LET nmc == wallNearMiss(h)
      checked1 == h.nearMissChecked \/ nmc
      ptc == wallPhaseThrough(h, wasPhased, checked1)
  IN Result(h, checked1 \/ ptc, IF nmc /\ ~wasPhased THEN 1 ELSE 0, IF ptc THEN 1 ELSE 0,
            wallCollision(h), wasPhased)

droneCollision(h) == h.dist < PlayerRadius + h.radius

droneNear(h) ==
  ~droneCollision(h) /\ h.dist < PlayerRadius + h.radius + NEAR_MISS_THRESHOLD

\* a drone that is checked while it telegraphs
droneInertNever(h) == FALSE

\* case 'drone': the collision block is skipped while hazard.telegraphed
droneInert(h) == h.telegraphed

checkDrone(h, wasPhased) ==
  IF droneInert(h) THEN Result(h, h.nearMissChecked, 0, 0, FALSE, wasPhased)
  ELSE
    LET nmc == droneNear(h) /\ ~h.nearMissChecked
        checked1 == h.nearMissChecked \/ nmc
        ptc == wasPhased /\ droneCollision(h) /\ ~checked1
    IN Result(h, checked1 \/ ptc, IF nmc /\ ~wasPhased THEN 1 ELSE 0, IF ptc THEN 1 ELSE 0,
              droneCollision(h) /\ ~ptc, wasPhased)

laserCollision(h) ==
  /\ h.px + PlayerRadius > h.x
  /\ h.px - PlayerRadius < h.x + h.width
  /\ 2 * (h.py + PlayerRadius) > 2 * h.y - h.height
  /\ 2 * (h.py - PlayerRadius) < 2 * h.y + h.height

\* laser: an edge of the player's box is within the threshold of an edge of the beam
laserNear(h) ==
  \/ Min(Abs(h.px + PlayerRadius - h.x), Abs(h.px - PlayerRadius - (h.x + h.width)))
       < NEAR_MISS_THRESHOLD
  \/ Min(Abs(2 * (h.py + PlayerRadius) - (2 * h.y - h.height)),
         Abs(2 * (h.py - PlayerRadius) - (2 * h.y + h.height))) < 2 * NEAR_MISS_THRESHOLD

checkLaser(h, wasPhased) ==
  IF ~(h.telegraphTimer < 0 /\ h.width # 0 /\ h.height # 0)
  THEN Result(h, h.nearMissChecked, 0, 0, FALSE, wasPhased)
  ELSE
    LET ptc == wasPhased /\ laserCollision(h) /\ ~h.nearMissChecked
        collision == laserCollision(h) /\ ~ptc
        checked1 == h.nearMissChecked \/ ptc
        nmc == ~collision /\ ~checked1 /\ laserNear(h) /\ h.telegraphTimer > -LaserNearTicks
    IN Result(h, checked1 \/ nmc, IF nmc THEN 1 ELSE 0, IF ptc THEN 1 ELSE 0, collision,
              wasPhased)

\* the forEach body of checkHazardCollisions for one hazard
checkHazardCollisions(h, p) ==
  LET wasPhased == h.phaseable /\ p.phaseActive IN
  IF ~h.active THEN [h |-> h, nearMisses |-> 0, phaseThroughs |-> 0, damage |-> FALSE]
  ELSE IF h.type = "wall" THEN checkWall(h, wasPhased)
  ELSE IF h.type = "drone" THEN checkDrone(h, wasPhased)
  ELSE checkLaser(h, wasPhased)

\* the part of fixedUpdate from updatePlayer to the forwarding of the counts,
\* in a tick that passes the timer and upgrade gates
TickHaz(dd) ==
  /\ pc = "idle"
  /\ phase = "playing"
  /\ hz.active
  /\ hz.py < PlayerStartY + MaxTravel
  /\ dd = 0 \/ hz.type = "drone"
  /\ LET p1 == updatePlayer(player)
         py1 == hz.py + (IF player.isCharging THEN ChargeStep ELSE BaseStep)
         h1 == updateHazards([hz EXCEPT !.py = py1], dd)
         r == checkHazardCollisions(h1, p1)
     IN /\ player' = IF r.damage THEN damagePlayer(p1, 1) ELSE p1
        /\ phase' = IF r.damage /\ damageEnds(p1, 1) THEN "ended" ELSE phase
        /\ hz' = [r.h EXCEPT !.nearMisses = @ + r.nearMisses,
                             !.phaseThroughs = @ + r.phaseThroughs,
                             !.hits = @ + (IF r.damage /\ ~p1.invincible THEN 1 ELSE 0)]
  /\ UNCHANGED <<timer, lastUpgradeTime, upgradeChoices, selectedUpgrades, masteryStats,
                 persistentMastery, newUnlocks, runRewards, score, perfectPulses, currentScreen, running,
                 animationFrameId, rafPending, pc, accumulator, loopPhase, heap, storage,
                 tasks, endRunCalls, runsStarted, masteryLoaded, saveFailed, tickPhase, calc, clock, pressed, sinceDamage>>

\* a run in the 'playing' phase with a hazard just spawned
InitHaz ==
  /\ phase = "playing"
  /\ timer = maxTime
  /\ lastUpgradeTime = 0
  /\ upgradeChoices = {}
  /\ selectedUpgrades = {}
  /\ masteryStats = createInitialMasteryStats
  /\ persistentMastery = DEFAULT_PERSISTENT
  /\ newUnlocks = <<>>
  /\ runRewards = -1
  /\ score = 0
  /\ perfectPulses = 0
  /\ currentScreen = "game"
  /\ running = TRUE
  /\ animationFrameId = "live"
  /\ rafPending = 1
  /\ pc = "idle"
  /\ accumulator = 0
  /\ loopPhase = "menu"
  /\ player = createPlayer
  /\ heap = [r \in Refs |-> 0]
  /\ storage = NoData
  /\ tasks = <<LoadTask("set"), LoadTask("set")>>
  /\ endRunCalls = 0
  /\ runsStarted = 1
  /\ masteryLoaded = FALSE
  /\ saveFailed = FALSE
  /\ tickPhase = "none"
  /\ hz \in SpawnedHazards
  /\ calc = NoCall
  /\ clock = NoClock
  /\ pressed = FALSE
  /\ sinceDamage = -1

NextHaz ==
  \/ \E dd \in {-DroneStep, 0, DroneStep} : TickHaz(dd)
  \/ Touch

SpecHaz == InitHaz /\ [][NextHaz]_vars

\* ticks keep running while the run is in the 'playing' phase
FairSpecHaz == SpecHaz /\ WF_vars(\E dd \in {-DroneStep, 0, DroneStep} : TickHaz(dd))

(***************************************************************************)
(* Pure functions of hazards.ts and mastery.ts, one call at a time         *)
(***************************************************************************)
SegmentSeconds == 15

\* bounds of the arguments of the calls
MaxSegmentsProbed == 7      \* segment boundaries tried, beyond the six of the table
FarElapsed == 1000000       \* an elapsedTime far beyond the table, in ms (1000 s)
FarXP == 5000               \* an XP beyond the last threshold
MaxStreak == 21             \* the largest maxRhythmStreak of a call
MaxPulsesCounted == 2       \* the largest perfectPulses of a call
MaxCallScore == 120         \* the largest score of a call

\* DIFFICULTY_SEGMENTS; wallDensity in hundredths
DIFFICULTY_SEGMENTS ==
  << [wallSpawnRate |-> 250, wallDensity |-> 40, droneEnabled |-> FALSE,
      droneSpawnInterval |-> 999, droneSpeed |-> 0, laserEnabled |-> FALSE,
      laserSpawnInterval |-> 999],
     [wallSpawnRate |-> 220, wallDensity |-> 50, droneEnabled |-> TRUE,
      droneSpawnInterval |-> 8, droneSpeed |-> 60, laserEnabled |-> FALSE,
      laserSpawnInterval |-> 999],
     [wallSpawnRate |-> 200, wallDensity |-> 55, droneEnabled |-> TRUE,
      droneSpawnInterval |-> 6, droneSpeed |-> 70, laserEnabled |-> TRUE,
      laserSpawnInterval |-> 10],
     [wallSpawnRate |-> 180, wallDensity |-> 60, droneEnabled |-> TRUE,
      droneSpawnInterval |-> 5, droneSpeed |-> 80, laserEnabled |-> TRUE,
      laserSpawnInterval |-> 7],
     [wallSpawnRate |-> 160, wallDensity |-> 65, droneEnabled |-> TRUE,
      droneSpawnInterval |-> 4, droneSpeed |-> 90, laserEnabled |-> TRUE,
      laserSpawnInterval |-> 5],
     [wallSpawnRate |-> 140, wallDensity |-> 70, droneEnabled |-> TRUE,
      droneSpawnInterval |-> 3, droneSpeed |-> 110, laserEnabled |-> TRUE,
      laserSpawnInterval |-> 4] >>

\* getCurrentSegment: segmentIndex, for an elapsedTime in ms; the index
\* counts from 0 as in the source
segmentIndexWrapped(elapsedMs) ==
  (elapsedMs \div (SegmentSeconds * 1000)) % Len(DIFFICULTY_SEGMENTS)

segmentIndex(elapsedMs) ==
  Min(elapsedMs \div (SegmentSeconds * 1000), Len(DIFFICULTY_SEGMENTS) - 1)

\* DIFFICULTY_SEGMENTS[segmentIndex]; an index outside the array reads undefined
Undefined == [undefined |-> TRUE]

getCurrentSegment(elapsedMs) ==
  LET i == segmentIndex(elapsedMs)
  IN IF i \in 0..(Len(DIFFICULTY_SEGMENTS) - 1) THEN DIFFICULTY_SEGMENTS[i + 1] ELSE Undefined

ElapsedTimes ==
  {t \in {k * SegmentSeconds * 1000 + d : k \in 0..MaxSegmentsProbed, d \in {-1, 0, 1, 7500}} :
     t >= 0} \cup {FarElapsed}

Call(fn, args) == [fn |-> fn, args |-> args, done |-> FALSE, result |-> 0]

XPs ==
  {-1, FarXP} \cup
  {x \in {MASTERY_THRESHOLDS[i] + d : i \in 1..Len(MASTERY_THRESHOLDS), d \in {-1, 0, 1}} :
     x >= 0}

Calls ==
  {Call("getCurrentSegment", <<t>>) : t \in ElapsedTimes}
    \cup {Call("getMasteryLevel", <<xp>>) : xp \in XPs}
    \cup {Call("calculateRunMasteryXP", <<pp, st>>) :
            pp \in 0..MaxPulsesCounted, st \in 0..MaxStreak}
    \cup {Call("calculateRunBlueprints", <<sc>>) : sc \in 0..MaxCallScore}

Return(r) ==
  /\ ~calc.done
  /\ calc' = [calc EXCEPT !.done = TRUE, !.result = r]
  /\ UNCHANGED <<appVars, player, hz, clock, pressed, sinceDamage>>

callGetCurrentSegment ==
  /\ calc.fn = "getCurrentSegment"
  /\ Return(segmentIndex(calc.args[1]))

callGetMasteryLevel ==
  /\ calc.fn = "getMasteryLevel"
  /\ Return(getMasteryLevel(calc.args[1]))

\* calculateRunMasteryXP(stats).timing
callCalculateRunMasteryXP ==
  /\ calc.fn = "calculateRunMasteryXP"
  /\ Return(timingXP([perfectPulses |-> calc.args[1], maxRhythmStreak |-> calc.args[2]]))

\* calculateRunBlueprints(score, stats).baseBlueprints
callCalculateRunBlueprints ==
  /\ calc.fn = "calculateRunBlueprints"
  /\ Return(baseBlueprints(calc.args[1]))

InitFn ==
  /\ InitApp
  /\ storage = NoData
  /\ calc \in Calls

NextFn ==
  \/ callGetCurrentSegment
  \/ callGetMasteryLevel
  \/ callCalculateRunMasteryXP
  \/ callCalculateRunBlueprints

SpecFn == InitFn /\ [][NextFn]_vars

(***************************************************************************)
(* The fixed-timestep loop in milliseconds (engine.ts)                     *)
(***************************************************************************)
\* deltaTime, accumulator and fixedDeltaTime are binary floating-point
\* numbers.  A number is held as its count of units of 2^-FracBits ms and
\* every addition and subtraction is rounded to MantissaBits significant
\* bits, to nearest, ties to even, as the arithmetic of the engine rounds.
FracBits == 8
MantissaBits == 13      \* the significant bits kept
MaxElapsed == 60        \* ms of wall-clock time followed after start()

RECURSIVE Pow2(_)
Pow2(n) == IF n <= 0 THEN 1 ELSE 2 * Pow2(n - 1)

\* the number of bits of x > 0
RECURSIVE Bits(_)
Bits(x) == IF x <= 1 THEN 1 ELSE 1 + Bits(x \div 2)

Ulp(x) == IF Bits(x) > MantissaBits THEN Pow2(Bits(x) - MantissaBits) ELSE 1

RoundNearestEven(x) ==
  LET u == Ulp(x)
      q == x \div u
      r == x % u
  IN IF 2 * r > u \/ (2 * r = u /\ q % 2 = 1) THEN (q + 1) * u ELSE q * u

Ms(t) == t * Pow2(FracBits)

\* DEFAULT_CONFIG.fixedDeltaTime: 1000 / 60, rounded
fixedDeltaTime == RoundNearestEven((2 * Ms(1000) + 60) \div (2 * 60))

\* wall-clock time between two callbacks of loop, in ms
FrameDeltas == {1, 8, 16, 17, 25, 50}

\* a callback of loop fires deltaTime ms after the previous one: GameEngine.loop
\* up to its while loop
LoopBeginMs(deltaTime) ==
  /\ pc = "idle"
  /\ rafPending > 0
  /\ animationFrameId = "live"
  /\ running
  /\ clock.lastTime + deltaTime <= MaxElapsed
  /\ rafPending' = rafPending - 1
  /\ animationFrameId' = "stale"
  /\ pc' = "loop"
  /\ clock' = [clock EXCEPT !.lastTime = @ + deltaTime]
  /\ accumulator' = RoundNearestEven(accumulator + Ms(deltaTime))
  /\ loopPhase' = phase
  /\ UNCHANGED <<storeVars, currentScreen, running, player, heap, storage, tasks,
                 endRunCalls, runsStarted, masteryLoaded, saveFailed, tickPhase, hz, calc,
                 pressed, sinceDamage>>

\* one iteration of the while loop
LoopTickMs ==
  /\ pc = "loop"
  /\ accumulator >= fixedDeltaTime
  /\ IF loopPhase = "playing"
     THEN /\ fixedUpdate("none", FALSE, 0)
          /\ tickPhase' = phase
          /\ clock' = [clock EXCEPT !.ticks = @ + 1]
     ELSE UNCHANGED <<phase, timer, lastUpgradeTime, upgradeChoices, masteryStats, player,
                      score, heap, tasks, endRunCalls, running, rafPending,
                      animationFrameId, tickPhase, clock>>
  /\ accumulator' = RoundNearestEven(accumulator - fixedDeltaTime)
  /\ UNCHANGED <<selectedUpgrades, persistentMastery, newUnlocks, runRewards, perfectPulses,
                 currentScreen, pc, loopPhase, storage, runsStarted, masteryLoaded,
                 saveFailed, hz, calc, pressed, sinceDamage>>

\* the end of GameEngine.loop: requestAnimationFrame(this.loop)
LoopEndMs ==
  /\ pc = "loop"
  /\ accumulator < fixedDeltaTime
  /\ pc' = "idle"
  /\ rafPending' = rafPending + 1
  /\ animationFrameId' = "live"
  /\ tickPhase' = "none"
  /\ UNCHANGED <<storeVars, currentScreen, running, accumulator, loopPhase, player, heap,
                 storage, tasks, endRunCalls, runsStarted, masteryLoaded, saveFailed, hz,
                 calc, clock, pressed, sinceDamage>>

\* a run in the 'playing' phase, just after GameEngine.start()
InitLoop ==
  /\ phase = "playing"
  /\ timer = maxTime
  /\ lastUpgradeTime = 0
  /\ upgradeChoices = {}
  /\ selectedUpgrades = {}
  /\ masteryStats = createInitialMasteryStats
  /\ persistentMastery = DEFAULT_PERSISTENT
  /\ newUnlocks = <<>>
  /\ runRewards = -1
  /\ score = 0
  /\ perfectPulses = 0
  /\ currentScreen = "game"
  /\ running = TRUE
  /\ animationFrameId = "live"
  /\ rafPending = 1
  /\ pc = "idle"
  /\ accumulator = 0
  /\ loopPhase = "playing"
  /\ player = createPlayer
  /\ heap = [r \in Refs |-> 0]
  /\ storage = NoData
  /\ tasks = <<LoadTask("set"), LoadTask("set")>>
  /\ endRunCalls = 0
  /\ runsStarted = 1
  /\ masteryLoaded = FALSE
  /\ saveFailed = FALSE
  /\ tickPhase = "none"
  /\ hz = NoHazard
  /\ calc = NoCall
  /\ clock = NoClock
  /\ pressed = FALSE
  /\ sinceDamage = -1

\* the part of fixedUpdate from updatePlayer to checkHazardCollisions in a
\* tick in which n hazards overlap the player
TickDmg(n) ==
  /\ pc = "idle"
  /\ phase = "playing"
  /\ LET p1 == updatePlayer(player)
         p2 == damageAll(p1, n)
     IN /\ player' = p2
        /\ phase' = IF p2.hp <= 0 THEN "ended" ELSE phase
        /\ sinceDamage' = IF p2.hp < p1.hp THEN 0
                          ELSE IF sinceDamage = -1 THEN -1
                          ELSE Min(sinceDamage + 1, InvincibleTicks + 1)
  /\ UNCHANGED <<timer, lastUpgradeTime, upgradeChoices, selectedUpgrades, masteryStats,
                 persistentMastery, newUnlocks, runRewards, score, perfectPulses, currentScreen, running,
                 animationFrameId, rafPending, pc, accumulator, loopPhase, heap, storage,
                 tasks, endRunCalls, runsStarted, masteryLoaded, saveFailed, tickPhase, hz, calc, clock, pressed>>

NextDmg ==
  \/ \E n \in 0..MaxOverlap : TickDmg(n)
  \/ Touch

\* a run in the 'playing' phase with up to MaxOverlap hazards on the player in
\* every tick
SpecDmg == InitLoop /\ [][NextDmg]_vars

NextLoop ==
  \/ \E deltaTime \in FrameDeltas : LoopBeginMs(deltaTime)
  \/ LoopTickMs
  \/ LoopEndMs

SpecLoop == InitLoop /\ [][NextLoop]_vars

(***************************************************************************)
(* The run timer in seconds (engine.ts, gameStore.ts)                      *)
(***************************************************************************)
\* timer, maxTime, lastUpgradeTime and dt are binary floating-point numbers of
\* seconds.  A number is held as its count of units of 2^-SecFracBits s, the
\* unit in the last place of dt, and every subtraction is rounded as above.
SecFracBits == MantissaBits + 5

Sec(t) == t * Pow2(SecFracBits)

maxTimeSec == 3           \* INITIAL_STATE.maxTime, in seconds
upgradeIntervalSec == 1   \* INITIAL_STATE.upgradeInterval, in seconds
TicksPerSecond == 60

\* the argument of fixedUpdate: this.config.fixedDeltaTime / 1000, rounded
dtSec ==
  RoundNearestEven((2 * fixedDeltaTime * Pow2(SecFracBits - FracBits) + 1000) \div (2 * 1000))

\* GameEngine.fixedUpdate(dt) with the timer in seconds.  hit: a hazard that is
\* not phase-exempt overlaps the player
fixedUpdateSec(hit) ==
  LET newTimer == RoundNearestEven(timer - dtSec)
      elapsed == RoundNearestEven(Sec(maxTimeSec) - newTimer)
  IN
  IF newTimer <= 0 THEN
    /\ phase' = "ended"
    /\ endRun
    /\ stop
    /\ UNCHANGED <<timer, lastUpgradeTime, upgradeChoices, masteryStats, player, score>>
  ELSE IF RoundNearestEven(elapsed - lastUpgradeTime) >= Sec(upgradeIntervalSec) THEN
    LET available == getAvailableUpgrades(persistentMastery.unlockedUpgrades) \ selectedUpgrades
        n == Min(3, Cardinality(available))
    IN /\ timer' = newTimer
       /\ phase' = "upgrade"
       /\ upgradeChoices' \in {c \in SUBSET available : Cardinality(c) = n}
       /\ lastUpgradeTime' = elapsed
       /\ UNCHANGED <<masteryStats, player, score, heap, tasks, endRunCalls, running,
                      rafPending, animationFrameId>>
  ELSE
    LET p1 == updatePlayer(player)
        p2 == IF hit THEN damagePlayer(p1, 1) ELSE p1
    IN /\ timer' = newTimer
       /\ player' = p2
       /\ phase' = IF hit /\ damageEnds(p1, 1) THEN "ended" ELSE phase
       /\ UNCHANGED <<lastUpgradeTime, upgradeChoices, masteryStats, score, heap, tasks,
                      endRunCalls, running, rafPending, animationFrameId>>

\* one iteration of the while loop of GameEngine.loop
TickSec(hit) ==
  /\ pc = "loop"
  /\ accumulator >= 1
  /\ IF loopPhase = "playing"
     THEN /\ fixedUpdateSec(hit)
          /\ tickPhase' = phase
          /\ clock' = [clock EXCEPT !.ticks = @ + 1]
     ELSE UNCHANGED <<phase, timer, lastUpgradeTime, upgradeChoices, masteryStats, player,
                      score, heap, tasks, endRunCalls, running, rafPending,
                      animationFrameId, tickPhase, clock>>
  /\ accumulator' = accumulator - 1
  /\ UNCHANGED <<selectedUpgrades, persistentMastery, newUnlocks, runRewards, perfectPulses,
                 currentScreen, pc, loopPhase, storage, runsStarted, masteryLoaded,
                 saveFailed, hz, calc, pressed, sinceDamage>>

\* a run in the 'playing' phase, just after GameEngine.start(), its timer in
\* seconds
InitTimer ==
  /\ phase = "playing"
  /\ timer = Sec(maxTimeSec)
  /\ lastUpgradeTime = 0
  /\ upgradeChoices = {}
  /\ selectedUpgrades = {}
  /\ masteryStats = createInitialMasteryStats
  /\ persistentMastery = DEFAULT_PERSISTENT
  /\ newUnlocks = <<>>
  /\ runRewards = -1
  /\ score = 0
  /\ perfectPulses = 0
  /\ currentScreen = "game"
  /\ running = TRUE
  /\ animationFrameId = "live"
  /\ rafPending = 1
  /\ pc = "idle"
  /\ accumulator = 0
  /\ loopPhase = "playing"
  /\ player = createPlayer
  /\ heap = [r \in Refs |-> 0]
  /\ storage = NoData
  /\ tasks = <<LoadTask("set"), LoadTask("set")>>
  /\ endRunCalls = 0
  /\ runsStarted = 1
  /\ masteryLoaded = FALSE
  /\ saveFailed = FALSE
  /\ tickPhase = "none"
  /\ hz = NoHazard
  /\ calc = NoCall
  /\ clock = NoClock
  /\ pressed = FALSE
  /\ sinceDamage = -1

NextTimer ==
  \/ \E named \in BOOLEAN, k \in 0..MaxTicksPerFrame : LoopBegin(named, k)
  \/ \E hit \in BOOLEAN : TickSec(hit)
  \/ LoopEnd
  \/ \E u \in BaseUpgrades : handleSelectUpgrade(u)

\* one run with its timer in seconds: frames of several ticks, hits, and the
\* selection of an offered upgrade
SpecTimer == InitTimer /\ [][NextTimer]_vars

(***************************************************************************)
(* Claims                                                                  *)
(***************************************************************************)

\* C1: between a startGame and the next, endRun is invoked at most once, also
\* when one frame consumes several fixed ticks.
C1_EndRunAtMostOncePerRun == endRunCalls <= 1

\* C2: whenever the run phase becomes 'ended' (timer at zero, or HP brought to
\* zero by damagePlayer), endRun is eventually invoked for that run.
C2_EndedLeadsToEndRun == (phase = "ended") ~> (endRunCalls > 0)

\* C3: fixedUpdate executes only when the run phase at that moment is
\* 'playing'; no tick runs once the phase is 'upgrade' or 'ended'.
C3_TickOnlyWhilePlaying == tickPhase \in {"none", "playing"}

PhaseMoves ==
  {<<"menu", "countdown">>, <<"countdown", "playing">>, <<"playing", "upgrade">>,
   <<"upgrade", "playing">>, <<"playing", "ended">>,
   <<"ended", "countdown">>, <<"ended", "menu">>}

\* C4: the run phase only moves menu -> countdown -> playing, playing ->
\* upgrade -> playing and playing -> ended; 'ended' is left only by a new run
\* (countdown) or a reset (menu), never to 'upgrade' or 'playing'.
C4_PhaseMovesOnly == [][phase' # phase => <<phase, phase'>> \in PhaseMoves]_vars

\* C5: 0 <= hp <= maxHp and 0 <= charge <= maxCharge before and after every
\* fixedUpdate.
C5_HpAndChargeInRange ==
  /\ 0 <= player.hp /\ player.hp <= player.maxHp
  /\ 0 <= player.charge /\ player.charge <= player.maxCharge

SavePending == \E i \in 1..Len(tasks) : tasks[i].kind = "save"

\* C9: a new run (play or retry) or a navigation to home proceeds only when
\* no save issued by endRun is still pending.
C9_NoStartWhileSavePending ==
  [][(runsStarted' # runsStarted \/ (currentScreen = "game" /\ currentScreen' = "home"))
       => ~SavePending]_vars

\* C10: no run is started before the load of PersistentMastery at startup has
\* finished.
C10_LoadedBeforeRun == runsStarted > 0 => masteryLoaded

\* C6: over its lifetime a hazard (wall, drone or laser) contributes at most one
\* near miss or phase-through, and its nearMissChecked flag, once set, is
\* never cleared while the hazard is active.
C6_OneCountPerHazard ==
  /\ [](hz.nearMisses + hz.phaseThroughs <= 1)
  /\ [][hz.active /\ hz.nearMissChecked => hz'.nearMissChecked]_vars

\* a wall counted once as a phase-through, the player now un-phased just beyond
\* it within the near-miss distance: only the flag keeps the count at one
C6_Witness ==
  /\ hz.type = "wall"
  /\ hz.phaseThroughs = 1
  /\ hz.nearMisses = 0
  /\ ~player.phaseActive
  /\ ~wallCollision(hz)
  /\ wallDistSq(hz) < Sq(PlayerRadius + NEAR_MISS_THRESHOLD)
  /\ hz.py - PlayerRadius > hz.y + hz.height

\* C7: a hazard never produces both a near miss and collision damage.
C7_NoNearMissAndDamage == ~(hz.hits > 0 /\ hz.nearMisses > 0)

\* C8: in a tick that leaves a phase-active player overlapping a phaseable
\* wall, the player loses no HP and takes no damage, the wall's phase-through
\* count is exactly one and its near-miss count is zero.
C8_PhasedWallOverlap ==
  [][(/\ hz'.py # hz.py
      /\ hz.type = "wall"
      /\ hz.phaseable
      /\ player'.phaseActive
      /\ wallCollision(hz'))
     => (/\ player'.hp = player.hp
         /\ hz'.hits = hz.hits
         /\ hz'.phaseThroughs = 1
         /\ hz'.nearMisses = 0)]_vars

\* a phase-active player inside a phaseable wall after a tick, unharmed
C8_Witness ==
  /\ hz.type = "wall"
  /\ hz.phaseable
  /\ hz.py # PlayerStartY
  /\ player.phaseActive
  /\ wallCollision(hz)
  /\ hz.phaseThroughs = 1
  /\ player.hp = player.maxHp

SavesInFlight == {i \in 1..Len(tasks) : tasks[i].kind = "save"}

\* C11: at any time at most one saveMasteryData call is in flight, across
\* endRun, the purchases and the selections.
C11_AtMostOneSaveInFlight == Cardinality(SavesInFlight) <= 1

\* C12: at any point of a session a load that fails, or finds nothing
\* stored, returns the default PersistentMastery: zero XP, zero runs, zero
\* blueprints and no unlocked upgrades.
C12_FailedLoadReturnsDefault ==
  LET m == loadMasteryData(FALSE, tasks)
      h == loadedHeap(FALSE, tasks)
  IN /\ h[m.progress] = 0
     /\ m.totalRuns = 0
     /\ m.blueprints = 0
     /\ m.unlockedUpgrades = <<>>

\* C13: a failed storage write is surfaced to the caller of saveMasteryData:
\* for every save in flight, what the caller gets when the write fails
\* differs from what it gets when the write succeeds.
C13_SaveFailureSurfaced ==
  \A i \in SavesInFlight : saveMasteryData(i, FALSE).settled # saveMasteryData(i, TRUE).settled

\* C14: once the save of an endRun has failed, the in-memory
\* persistentMastery is never rolled back: its XP, run count and blueprints do
\* not decrease and its unlocked upgrades stay, for the rest of the session.
C14_FailedSaveKeepsProgress ==
  [][saveFailed =>
       /\ persistentMastery'.totalRuns >= persistentMastery.totalRuns
       /\ persistentMastery'.blueprints >= persistentMastery.blueprints
       /\ heap'[persistentMastery'.progress] >= heap[persistentMastery.progress]
       /\ \A i \in 1..Len(persistentMastery.unlockedUpgrades) :
            InSeq(persistentMastery.unlockedUpgrades[i], persistentMastery'.unlockedUpgrades)]_vars

\* C15: the blueprint balance of the persisted save never decreases, whatever
\* operation writes it (run end, purchase, selection).
C15_BlueprintsNonDecreasing == [][storage'.blueprints >= storage.blueprints]_vars

\* C16: the XP of a track in the persisted save never decreases: a value
\* written to storage is never lower than the value stored before.
C16_StoredXPNonDecreasing == [][storage'.xp >= storage.xp]_vars

\* a release of the touch with charge equal to maxCharge
ReleaseAtFullCharge ==
  /\ player.charge > 0
  /\ player.charge = player.maxCharge
  /\ player'.charge = 0
  /\ runsStarted' = runsStarted

\* C20: a release with charge equal to maxCharge counts one perfect pulse and
\* raises the score by 50 times the player's score multiplier, the multiplier
\* that spark pickups raise (kept in tenths).
C20_PerfectPulseScaledByMultiplier ==
  [][ReleaseAtFullCharge =>
       /\ perfectPulses' = perfectPulses + 1
       /\ score' = score + (PerfectBonus * player.multiplier) \div 10]_vars

\* a step that calls endRun, and the save that call leaves in flight
EndRunCalled == endRunCalls' = endRunCalls + 1

NewSave == tasks'[Cardinality(SavesInFlight) + 1]

\* C17: one call of endRun persists a totalRuns one above the value it found
\* and a highScore that is the maximum of the previous highScore and the
\* run's score, and its new-unlocks list holds no id that unlockedUpgrades
\* held before the call; when its save completes, that state and that list
\* are what the store and the storage hold.
C17_EndRunContract ==
  [][/\ EndRunCalled =>
          /\ NewSave.kind = "save" /\ NewSave.cont = "endRun"
          /\ NewSave.nm.totalRuns = persistentMastery.totalRuns + 1
          /\ NewSave.snap.totalRuns = persistentMastery.totalRuns + 1
          /\ NewSave.nm.highScore = Max(persistentMastery.highScore, score)
          /\ NewSave.snap.highScore = Max(persistentMastery.highScore, score)
          /\ \A k \in 1..Len(NewSave.unlocks) :
               ~InSeq(NewSave.unlocks[k], persistentMastery.unlockedUpgrades)
     /\ \A i \in 1..Len(tasks) :
          (/\ tasks[i].kind = "save" /\ tasks[i].cont = "endRun"
           /\ Len(tasks') < Len(tasks) /\ tasks' = RemoveAt(tasks, i)) =>
            /\ persistentMastery' = tasks[i].nm
            /\ newUnlocks' = tasks[i].unlocks
            /\ storage' = tasks[i].snap]_vars

\* a run that scored below the loaded high score and unlocked an upgrade has
\* ended and its save is in flight
C17_Witness ==
  \E i \in SavesInFlight :
    /\ tasks[i].cont = "endRun"
    /\ score > 0 /\ score < StoredSave.highScore
    /\ tasks[i].nm.highScore = StoredSave.highScore
    /\ tasks[i].nm.totalRuns = StoredSave.totalRuns + 1
    /\ tasks[i].unlocks = <<"close_call">>

\* the same with a score above the loaded high score
C17_WitnessHigher ==
  \E i \in SavesInFlight :
    /\ tasks[i].cont = "endRun"
    /\ score > StoredSave.highScore
    /\ masteryLoaded
    /\ tasks[i].nm.highScore = score

\* C18: the step that calls endRun leaves what a reader of the store sees of
\* persistentMastery (its XP included), newUnlocks and runRewards as they
\* were: the run's results appear only when the save has completed.
C18_ResultsOnlyAfterSave ==
  [][EndRunCalled =>
       /\ persistentMastery' = persistentMastery
       /\ heap'[persistentMastery'.progress] = heap[persistentMastery.progress]
       /\ newUnlocks' = newUnlocks
       /\ runRewards' = runRewards]_vars

NoDuplicate(s) == \A i, j \in 1..Len(s) : i # j => s[i] # s[j]

\* C19: an unlock rule fires at most once per save: the unlockedUpgrades of
\* the store, of the storage and of every state being saved never holds an
\* id twice, and checkMasteryUnlocks returns nothing on a state to which its
\* own result has been appended.
C19_UnlockOnce ==
  /\ NoDuplicate(persistentMastery.unlockedUpgrades)
  /\ NoDuplicate(storage.unlockedUpgrades)
  /\ \A i \in 1..Len(tasks) : NoDuplicate(tasks[i].nm.unlockedUpgrades)
  /\ LET xp == heap[persistentMastery.progress]
         unlocks == checkMasteryUnlocks(xp, persistentMastery.unlockedUpgrades)
     IN checkMasteryUnlocks(xp, persistentMastery.unlockedUpgrades \o unlocks) = <<>>

\* a save that held the mastery unlock has been loaded, an upgrade has been
\* bought, and a run at risk level 2 has ended and been saved
C19_Witness ==
  /\ persistentMastery.totalRuns = StoredUnlocked.totalRuns + 1
  /\ storage.totalRuns = StoredUnlocked.totalRuns + 1
  /\ InSeq("close_call", persistentMastery.unlockedUpgrades)
  /\ InSeq("timing_echo", persistentMastery.unlockedUpgrades)
  /\ Len(persistentMastery.unlockedUpgrades) = 2
  /\ getMasteryLevel(heap[persistentMastery.progress]) >= 2

\* C21: for an elapsedTime >= 0 the index of the active segment is inside the
\* table, is not below the index of any earlier time, is the last index from
\* the last segment boundary on, and the segment read is that table entry.
C21_SegmentClamped ==
  (calc.fn = "getCurrentSegment" /\ calc.done) =>
    LET t == calc.args[1]
        last == Len(DIFFICULTY_SEGMENTS) - 1
    IN /\ calc.result \in 0..last
       /\ \A t0 \in ElapsedTimes : t0 <= t => segmentIndex(t0) <= calc.result
       /\ t >= last * SegmentSeconds * 1000 => calc.result = last
       /\ t < last * SegmentSeconds * 1000 =>
            /\ calc.result * SegmentSeconds * 1000 <= t
            /\ t < (calc.result + 1) * SegmentSeconds * 1000
       /\ getCurrentSegment(t) = DIFFICULTY_SEGMENTS[calc.result + 1]
       /\ t = FarElapsed => getCurrentSegment(t).droneSpeed = 110

\* the call with elapsedTime = 1000 s has returned
C21_Witness ==
  calc.fn = "getCurrentSegment" /\ calc.done /\ calc.args[1] = FarElapsed

\* C26: getMasteryLevel is monotone and its result lies in 1..10: the level
\* of an xp is in 1..10 and is not below the level of any smaller xp.
C26_LevelMonotone ==
  (calc.fn = "getMasteryLevel" /\ calc.done) =>
    /\ calc.result \in 1..10
    /\ \A xp1 \in XPs : xp1 <= calc.args[1] => getMasteryLevel(xp1) <= calc.result
    /\ \A xp2 \in XPs : calc.args[1] <= xp2 => calc.result <= getMasteryLevel(xp2)

\* the level of an xp beyond the last threshold has been computed
C26_Witness ==
  calc.fn = "getMasteryLevel" /\ calc.done /\ calc.args[1] = FarXP /\ calc.result = 10

StreakBonus(threshold) ==
  IF threshold = 3 THEN RhythmStreak3
  ELSE IF threshold = 5 THEN RhythmStreak5
  ELSE IF threshold = 10 THEN RhythmStreak10
  ELSE RhythmStreak20

RECURSIVE SumBonuses(_)
SumBonuses(S) ==
  IF S = {} THEN 0
  ELSE LET x == CHOOSE y \in S : TRUE IN StreakBonus(x) + SumBonuses(S \ {x})

\* C27: the streak bonuses of timing XP stack: the streak component is the
\* sum of the bonuses of all thresholds of {3, 5, 10, 20} that
\* maxRhythmStreak reaches, 175 for a maxRhythmStreak of 12.
C27_StreakBonusesStack ==
  (calc.fn = "calculateRunMasteryXP" /\ calc.done) =>
    LET streak == calc.args[2]
        component == calc.result - calc.args[1] * PerfectPulseXP
    IN /\ component = SumBonuses({th \in {3, 5, 10, 20} : streak >= th})
       /\ streak = 12 => component = 175

\* the timing XP of a run with a maxRhythmStreak of 12 has been computed
C27_Witness ==
  calc.fn = "calculateRunMasteryXP" /\ calc.done /\ calc.args[2] = 12

\* C28: base blueprints are max(minBase, floor(score * basePerScore)): never
\* below minBase, 5 for a score of 10, and the tenth of the score rounded
\* down once that is above minBase.
C28_BaseBlueprintFloor ==
  (calc.fn = "calculateRunBlueprints" /\ calc.done) =>
    LET sc == calc.args[1]
    IN /\ calc.result >= MinBase
       /\ sc = 10 => calc.result = 5
       /\ sc < 10 * MinBase => calc.result = MinBase
       /\ sc >= 10 * MinBase => (10 * calc.result <= sc /\ sc < 10 * (calc.result + 1))

\* the base blueprints of a score of 10 have been computed
C28_Witness ==
  calc.fn = "calculateRunBlueprints" /\ calc.done /\ calc.args[1] = 10

\* C25: while the phase stays 'playing', after every frame the ticks run are
\* floor(T / fixedDeltaTime) for the wall-clock time T elapsed since start,
\* whatever the frames T was split into, and the accumulator holds the
\* remainder, within 0 <= accumulator < fixedDeltaTime.
C25_TicksDependOnElapsedOnly ==
  (pc = "idle" /\ phase = "playing" /\ running) =>
    /\ 1000 * clock.ticks <= 60 * clock.lastTime
    /\ 60 * clock.lastTime < 1000 * (clock.ticks + 1)
    /\ 0 <= accumulator /\ accumulator < fixedDeltaTime

\* the phase of a laser beam, read from its fields
LaserPhase(h) ==
  IF ~h.active THEN "gone"
  ELSE IF h.telegraphTimer > 0 THEN "telegraph"
  ELSE IF h.telegraphTimer < 0 THEN "active"
  ELSE "stuck"

\* the phases a laser may be in after a step, given its phase before
LaserOrder ==
  hz.type = "laser" =>
    /\ hz'.type = "laser"
    /\ LaserPhase(hz) = "telegraph" => LaserPhase(hz') \in {"telegraph", "active"}
    /\ LaserPhase(hz) = "active" =>
         /\ LaserPhase(hz') \in {"active", "gone"}
         /\ hz' # hz => hz'.telegraphTimer > hz.telegraphTimer
    /\ LaserPhase(hz) = "gone" => LaserPhase(hz') = "gone"
    /\ LaserPhase(hz') # "stuck"
    /\ hz'.telegraphTimer >= -LaserActiveTicks
    /\ hz'.telegraphed = (LaserPhase(hz') = "telegraph")

\* C22: a laser goes telegraph -> active -> gone and never back: from
\* telegraph it stays or becomes active, its active phase counts up to zero
\* within LaserActiveTicks ticks and ends in its deactivation, a deactivated
\* laser stays so; and while ticks keep running every spawned laser is
\* eventually deactivated.
C22_LaserLifecycle ==
  /\ [][LaserOrder]_vars
  /\ (hz.type = "laser" /\ LaserPhase(hz) = "telegraph") ~> (LaserPhase(hz) = "gone")

\* a laser has gone through its telegraph and its active phase
C22_Witness ==
  hz.type = "laser" /\ ~hz.active /\ hz.telegraphTimer = 0 /\ ~hz.telegraphed

\* a hazard that cannot deal damage yet
Telegraphing(h) ==
  /\ h.active
  /\ \/ h.type = "drone" /\ h.telegraphed
     \/ h.type = "laser" /\ h.telegraphTimer > 0

\* positions of the player tried against a telegraphing hazard: on it, near
\* it and away from it
ProbeYs(h) == {h.y - PlayerRadius - 10, h.y, h.y + PlayerRadius + 10, h.py}
ProbeDists(h) == {0, PlayerRadius + DroneRadius + 5, h.dist}

\* C23: a telegraphing drone or laser is inert: checkHazardCollisions gives
\* no damage, no near-miss and no phase-through for it and leaves it
\* unflagged, wherever the player is and whether or not the player is
\* phasing, and nothing has been counted for it so far.
C23_TelegraphInert ==
  Telegraphing(hz) =>
    /\ hz.nearMisses = 0 /\ hz.phaseThroughs = 0 /\ hz.hits = 0
    /\ ~hz.nearMissChecked
    /\ \A y \in ProbeYs(hz), d \in ProbeDists(hz), pa \in BOOLEAN :
         LET h == [hz EXCEPT !.py = y, !.dist = d]
             r == checkHazardCollisions(h, [player EXCEPT !.phaseActive = pa])
         IN ~r.damage /\ r.nearMisses = 0 /\ r.phaseThroughs = 0 /\ r.h = h

\* a drone has been checked in the last tick of its telegraph
C23_Witness ==
  /\ hz.type = "drone" /\ hz.telegraphed /\ hz.telegraphTimer = 0
  /\ hz.dist < PlayerRadius + DroneRadius + NEAR_MISS_THRESHOLD

\* what C24 says one effect does: every stat of the catalog that is a Player
\* scalar has its case
applyEffectEveryStat(p, e) ==
  CASE e.stat = "maxHp" ->
         LET m == IF e.modifier = "add" THEN p.maxHp + e.value
                  ELSE (p.maxHp * e.value) \div 100
         IN [p EXCEPT !.maxHp = m, !.hp = Min(m, p.hp)]
    [] e.stat = "dashPower" ->
         [p EXCEPT !.dashPower = IF e.modifier = "add" THEN p.dashPower + e.value
                                 ELSE (p.dashPower * e.value) \div 100]
    [] OTHER -> p

\* C24: selecting an upgrade applies each effect of its effect list to the
\* Player scalar the effect names (add: scalar + value, multiply: scalar x
\* value), for every stat of the catalog, once, at selection time
C24_EveryCatalogStatApplied ==
  [][\A u \in upgradeChoices :
       (phase = "upgrade" /\ phase' = "playing" /\ selectedUpgrades' = selectedUpgrades \cup {u})
         => player' = applyEffectEveryStat(player, Head(effects(u)))]_vars

\* power_dash has been selected
C24_Witness == "power_dash" \in selectedUpgrades /\ phase = "playing"

\* the player is beside or beyond the hazard h within the proximity threshold
\* and does not overlap it: the geometry of a near pass, for a wall (with the
\* passage test) and for a chasing drone
NearPass(h) ==
  \/ /\ h.type = "wall"
     /\ ~wallCollision(h)
     /\ wallDistSq(h) < Sq(PlayerRadius + NEAR_MISS_THRESHOLD)
     /\ h.py - PlayerRadius > h.y + h.height
  \/ /\ h.type = "drone"
     /\ ~h.telegraphed
     /\ droneNear(h)

\* C29: a tick in which an unflagged, phaseable hazard is passed within the
\* proximity threshold without overlap while the player's phase is active flags
\* the hazard and counts exactly one phase-through for it, and no near miss
C29_PhasedNearPassIsPhaseThrough ==
  [][(/\ hz'.py # hz.py
      /\ hz.active /\ ~hz.nearMissChecked
      /\ hz.phaseable /\ player'.phaseActive
      /\ NearPass(hz'))
       => (/\ hz'.nearMissChecked
           /\ hz'.phaseThroughs = hz.phaseThroughs + 1
           /\ hz'.nearMisses = hz.nearMisses)]_vars

\* the player has passed the hazard after a tick that took it from h0 to h1:
\* the player's trailing edge is beyond the far edge of a wall or of a laser
\* beam; a drone, kept as a distance, is not getting closer
PastHazard(h0, h1) ==
  CASE h1.type = "wall" -> h1.py - PlayerRadius > h1.y + h1.height
    [] h1.type = "laser" -> 2 * (h1.py - PlayerRadius) > 2 * h1.y + h1.height
    [] h1.type = "drone" -> ~(h1.dist < h0.dist)

\* C30: a tick counts a near miss for a hazard (wall, drone or laser) only if
\* the player is past the hazard along the direction of travel, never while the
\* player is still approaching it
C30_NearMissOnlyAfterPassage ==
  [][hz'.nearMisses > hz.nearMisses => PastHazard(hz, hz')]_vars

\* C31: a tick on which the time elapsed since the last upgrade offer reaches
\* the upgrade interval sets the phase to 'upgrade' and lastUpgradeTime to the
\* elapsed time and skips the rest of the tick: the player, the mastery stats
\* and the score are as they were before it
C31_UpgradeGateSkipsTick ==
  [][(/\ pc = "loop" /\ loopPhase = "playing" /\ accumulator' = accumulator - 1
      /\ timer - 1 > 0
      /\ (maxTime - (timer - 1)) - lastUpgradeTime >= upgradeInterval)
       => (/\ phase' = "upgrade"
           /\ timer' = timer - 1
           /\ lastUpgradeTime' = maxTime - timer'
           /\ player' = player
           /\ masteryStats' = masteryStats
           /\ score' = score)]_vars

\* the gate has just opened in a frame, on a player who is charging
C31_Witness ==
  /\ pc = "loop" /\ phase = "upgrade" /\ upgradeChoices # {}
  /\ lastUpgradeTime = maxTime - timer /\ lastUpgradeTime >= upgradeInterval
  /\ player.isCharging /\ player.charge < player.maxCharge

\* C32: every upgrade offer presents at most 3 upgrades, none of them already
\* selected in the current run, each of them a base upgrade or one whose id is
\* in persistentMastery.unlockedUpgrades
C32_OfferContents ==
  [][(phase' = "upgrade" /\ lastUpgradeTime' # lastUpgradeTime)
       => (/\ Cardinality(upgradeChoices') <= 3
           /\ upgradeChoices' \cap selectedUpgrades' = {}
           /\ \A u \in upgradeChoices' :
                \/ u \in BaseUpgrades
                \/ InSeq(u, persistentMastery'.unlockedUpgrades))]_vars

\* the second offer of a run: one upgrade is selected, four are available, and
\* an unlocked one is among the three offered
C32_Witness ==
  /\ phase = "upgrade"
  /\ selectedUpgrades # {}
  /\ Cardinality(upgradeChoices) = 3
  /\ upgradeChoices \cap (MasteryUpgrades \cup BlueprintUpgrades) # {}
  /\ Cardinality(getAvailableUpgrades(persistentMastery.unlockedUpgrades) \ selectedUpgrades) > 3

\* C33: endRun evaluates unlocks against the totals that include this run's XP:
\* when the run's XP raises the risk track from below level 2 to level 2 and
\* close_call is not unlocked yet, that same endRun returns close_call as a new
\* unlock
C33_UnlockInSameRun ==
  [][(/\ endRunCalls' = endRunCalls + 1
      /\ getMasteryLevel(heap[persistentMastery.progress]) < 2
      /\ getMasteryLevel(heap'[persistentMastery.progress]) >= 2
      /\ ~InSeq("close_call", persistentMastery.unlockedUpgrades))
       => \E i \in 1..Len(tasks') :
            /\ tasks'[i].kind = "save" /\ tasks'[i].cont = "endRun"
            /\ tasks'[i].unlocks = <<"close_call">>
            /\ InSeq("close_call", tasks'[i].nm.unlockedUpgrades)]_vars

\* a run over the stored 90 XP has ended with one near miss, and its endRun
\* has delivered close_call
C33_Witness ==
  /\ phase = "ended" /\ endRunCalls = 1 /\ masteryStats.nearMisses = 1
  /\ newUnlocks = <<"close_call">>
  /\ heap[persistentMastery.progress] = 90 + NearMissXP

\* C34: at most one chain of frame callbacks is alive: the callbacks of loop
\* that are pending, plus the one that is executing, are never more than one,
\* and a callback is about to execute a tick only while the engine is running
C34_OneLoopChain ==
  /\ rafPending + (IF pc = "loop" THEN 1 ELSE 0) <= 1
  /\ (pc = "loop" /\ accumulator >= 1 /\ loopPhase = "playing") => running

\* C35: player.isCharging is true only while a press is in progress: whenever
\* a tick is about to run in the 'playing' phase, isCharging implies that a
\* press is held, whatever the phase in which the last press ended, and the
\* charge never grows without a held press
C35_ChargingOnlyWhilePressed ==
  /\ []((pc = "loop" /\ accumulator >= 1 /\ loopPhase = "playing" /\ phase = "playing")
         => (player.isCharging => pressed))
  /\ [][player'.charge > player.charge => pressed]_vars

\* C36: a run that was started while the save of the previous run was pending
\* is not reached by that save: until the new run itself calls endRun,
\* newUnlocks is empty and runRewards is null
C36_NoLeakIntoNextRun ==
  (runsStarted >= 2 /\ phase \in {"countdown", "playing", "upgrade"} /\ endRunCalls = 0)
    => (newUnlocks = <<>> /\ runRewards = -1)

\* C37: no successful change is lost to an interleaving of purchases and
\* endRun: when one of the overlapping saves completes, persistentMastery still
\* holds every upgrade id that a completed purchase put there, and the
\* completion of a purchase does not take a counted run away
C37_NoLostUpdate ==
  [][Cardinality(SavesInFlight') < Cardinality(SavesInFlight)
       => (/\ \A u \in BlueprintUpgrades :
                InSeq(u, persistentMastery.unlockedUpgrades)
                  => InSeq(u, persistentMastery'.unlockedUpgrades)
           /\ (\E i \in SavesInFlight :
                 tasks[i].cont = "purchase" /\ tasks' = RemoveAt(tasks, i))
                => persistentMastery'.totalRuns >= persistentMastery.totalRuns)]_vars

\* C38: the blueprint balance is never negative, in the store and in storage,
\* and a purchase that succeeds lowers the store's balance by exactly its cost
\* (a purchase that is refused changes nothing: it is no step of the model)
C38_BalanceAccounting ==
  /\ [](persistentMastery.blueprints >= 0 /\ storage.blueprints >= 0)
  /\ [][\A i \in 1..Len(tasks) :
          (/\ tasks[i].kind = "save" /\ tasks[i].cont = "purchase"
           /\ tasks' = RemoveAt(tasks, i)
           /\ persistentMastery' = tasks[i].nm)
            => persistentMastery'.blueprints = persistentMastery.blueprints - TimingEchoCost]_vars

\* C39: the player loses HP at most once per tick, however many hazards
\* overlap, and at most once per invincibility window: a tick lowers HP by at
\* most 1, and not before InvincibleTicks ticks have passed since the last loss
C39_OneLossPerWindow ==
  [][player'.hp < player.hp
       => (/\ player'.hp = player.hp - 1
           /\ sinceDamage = -1 \/ sinceDamage + 1 >= InvincibleTicks)]_vars

\* HP has been lost a second time, as soon as the window allowed
C39_Witness ==
  /\ player.hp = StartHp - 2
  /\ sinceDamage = 0
  /\ player.invincible /\ player.invincibleTimer = InvincibleTicks

\* C40: every tick executed in the 'playing' phase lowers the stored run timer
\* or ends the run, the stored timer stays within 0 < timer <= maxTime, and a
\* run has reached 'ended' once ceil(maxTime / dt) ticks, TicksPerSecond for
\* every second of maxTime, have been executed.
C40_RunEndsWithinItsTicks ==
  /\ [](0 < timer /\ timer <= Sec(maxTimeSec))
  /\ [][clock'.ticks = clock.ticks + 1 => (timer' < timer \/ phase' = "ended")]_vars
  /\ [](clock.ticks >= TicksPerSecond * maxTimeSec => phase = "ended")

====
